---- MODULE Spec2Model ----
(***************************************************************************)
(* A model of the ChatGPT Telegram bot (src/bot): the document store       *)
(* (database.py), the completion client's retry/stream loop                *)
(* (openai_utils.py), the streamed delivery loop and the per-user request  *)
(* admission of the message handlers (bot.py).                             *)
(*                                                                         *)
(* Several next-state relations share one set of variables:                *)
(*   SpecDb        the user/dialog Database methods, arbitrary arguments   *)
(*   SpecLedger    Database.update_n_used_tokens, arbitrary arguments      *)
(*   SpecClient    ChatGPT.send_message / send_message_stream              *)
(*   SpecPresenter the "async for gen_item in gen" delivery loop           *)
(*   Spec          the update handlers of bot.py and the spawned tasks     *)
(***************************************************************************)
EXTENDS Integers, Sequences, FiniteSets, TLC

VARIABLES
    user_collection,    \* db["user"]: user id -> user document
    dialog_collection,  \* db["dialog"]: dialog id -> dialog document
    dbResult,           \* outcome of the last Database call made directly
    dbCall,             \* the last Database call made directly, when its user_id had
                        \* no user document: method and user_id
    usageLog,           \* history: the update_n_used_tokens calls that returned
    client,             \* one run of a ChatGPT.send_* method: its locals and its remote
    presenter,          \* one run of the delivery loop: its locals and its history
    user_semaphores,    \* bot.user_semaphores: user id -> its Semaphore(1), the
                        \* value and which object it is
    user_tasks,         \* bot.user_tasks: user id -> the request whose task it holds
    handlers,           \* request -> the handler coroutine of that update
    tasks               \* request -> the task message_handle created for it

dbVars == <<user_collection, dialog_collection, dbResult, dbCall, usageLog>>
handlerVars == <<user_semaphores, user_tasks, handlers, tasks>>
nonDbVars == <<client, presenter, handlerVars>>
nonClientVars == <<dbVars, presenter, handlerVars>>
nonPresenterVars == <<dbVars, client, handlerVars>>
nonHandlerVars == <<dbResult, dbCall, usageLog, client, presenter>>

vars == <<user_collection, dialog_collection, dbResult, dbCall, usageLog, client,
          presenter, user_semaphores, user_tasks, handlers, tasks>>

----------------------------------------------------------------------------
(* Bounds of the model *)

MaxDialogs == 3
MaxRecords == 3

(* Identifiers and static configuration *)

Users == {"u1", "u2"}
Models == {"gpt-3.5-turbo", "gpt-4o"}
ChatModes == {"assistant", "code_assistant"}
DialogIds == 1..MaxDialogs
None == 0
EmptyDict == <<>>
TokenInputs == {<<10, 5>>, <<3, 7>>, <<0, 0>>}

----------------------------------------------------------------------------
(* database.py *)

FirstAvailableTextModel == "gpt-3.5-turbo"

check_if_user_exists(uc, user_id) == user_id \in DOMAIN uc

NewUserDict ==
    [ current_dialog_id |-> None,
      current_chat_mode |-> "assistant",
      current_model     |-> FirstAvailableTextModel,
      n_used_tokens     |-> EmptyDict ]

\* add_new_user: insert_one only when the user is not there yet
add_new_user(uc, user_id) ==
    IF check_if_user_exists(uc, user_id)
    THEN uc
    ELSE [x \in DOMAIN uc \cup {user_id} |->
            IF x = user_id THEN NewUserDict ELSE uc[x]]

get_user_attribute(uc, user_id, key) == uc[user_id][key]

\* update_one({"_id": user_id}, {"$set": {key: value}}) changes nothing when
\* no document matches
set_user_attribute(uc, user_id, key, value) ==
    IF check_if_user_exists(uc, user_id)
    THEN [uc EXCEPT ![user_id] = [@ EXCEPT ![key] = value]]
    ELSE uc

\* uuid.uuid4(): an identifier no dialog document carries yet
NewDialogId(dc) == CHOOSE d \in DialogIds : d \notin DOMAIN dc

\* a dialog that takes the default chat mode instead of the user's
NewDialogDict_DefaultMode(uc, user_id) ==
    [ user_id   |-> user_id,
      chat_mode |-> "assistant",
      model     |-> get_user_attribute(uc, user_id, "current_model"),
      messages  |-> <<>> ]

NewDialogDict(uc, user_id) ==
    [ user_id   |-> user_id,
      chat_mode |-> get_user_attribute(uc, user_id, "current_chat_mode"),
      model     |-> get_user_attribute(uc, user_id, "current_model"),
      messages  |-> <<>> ]

\* start_new_dialog: the two collections after the call
start_new_dialog_dc(uc, dc, user_id) ==
    LET dialog_id == NewDialogId(dc)
    IN  [x \in DOMAIN dc \cup {dialog_id} |->
            IF x = dialog_id THEN NewDialogDict(uc, user_id) ELSE dc[x]]

\* a start_new_dialog that inserts the dialog and leaves the user document
start_new_dialog_uc_Unset(uc, dc, user_id) == uc

start_new_dialog_uc(uc, dc, user_id) ==
    set_user_attribute(uc, user_id, "current_dialog_id", NewDialogId(dc))

UsageEntry(i, o) == [n_input_tokens |-> i, n_output_tokens |-> o]

\* a merge that overwrites the stored counters instead of adding to them
MergeUsage_Overwrite(d, model, n_input_tokens, n_output_tokens) ==
    [x \in DOMAIN d \cup {model} |->
        IF x = model THEN UsageEntry(n_input_tokens, n_output_tokens)
        ELSE d[x]]

\* update_n_used_tokens: the n_used_tokens dictionary after the call
MergeUsage(d, model, n_input_tokens, n_output_tokens) ==
    IF model \in DOMAIN d
    THEN [d EXCEPT ![model] =
            UsageEntry(@.n_input_tokens + n_input_tokens,
                       @.n_output_tokens + n_output_tokens)]
    ELSE [x \in DOMAIN d \cup {model} |->
            IF x = model THEN UsageEntry(n_input_tokens, n_output_tokens)
            ELSE d[x]]

update_n_used_tokens(uc, user_id, model, n_input_tokens, n_output_tokens) ==
    set_user_attribute(uc, user_id, "n_used_tokens",
        MergeUsage(get_user_attribute(uc, user_id, "n_used_tokens"),
                   model, n_input_tokens, n_output_tokens))

\* find_one({"_id": dialog_id, "user_id": user_id}) finds a document
DialogFound(dc, user_id, dialog_id) ==
    dialog_id \in DOMAIN dc /\ dc[dialog_id].user_id = user_id

CurrentDialogId(uc, user_id) ==
    get_user_attribute(uc, user_id, "current_dialog_id")

get_dialog_messages(uc, dc, user_id) ==
    dc[CurrentDialogId(uc, user_id)].messages

\* set_dialog_messages: update_one changes nothing when no document matches
set_dialog_messages(uc, dc, user_id, dialog_messages) ==
    IF DialogFound(dc, user_id, CurrentDialogId(uc, user_id))
    THEN [dc EXCEPT ![CurrentDialogId(uc, user_id)].messages = dialog_messages]
    ELSE dc

----------------------------------------------------------------------------
(* The Database methods as operations of the store, called directly *)

CanStartDialog == Cardinality(DOMAIN dialog_collection) < MaxDialogs

Call(op, u) == [op |-> op, user |-> u]
NoCall == Call("", "")
\* what is kept of a call: nothing when the user is registered
CallKept(uc, op, u) == IF check_if_user_exists(uc, u) THEN NoCall ELSE Call(op, u)

\* the methods of Database that take a user_id
DbOps == {"add_new_user", "start_new_dialog", "get_user_attribute",
          "set_user_attribute", "update_n_used_tokens", "get_dialog_messages",
          "set_dialog_messages"}

\* a set_user_attribute that does not look the user up first
RaisesUnknownUser_SetUnchecked(uc, user_id, op) ==
    /\ op \in DbOps \ {"add_new_user", "set_user_attribute"}
    /\ ~check_if_user_exists(uc, user_id)

\* check_if_user_exists(user_id, raise_exception=True) at the top of the
\* method (update_n_used_tokens: of the get_user_attribute it starts with)
\* raises ValueError
RaisesUnknownUser(uc, user_id, op) ==
    /\ op \in DbOps \ {"add_new_user"}
    /\ ~check_if_user_exists(uc, user_id)

\* the method raised before it read or wrote anything else
DbUnknownUser(u, op) ==
    /\ RaisesUnknownUser(user_collection, u, op)
    /\ dbResult' = "ValueError"
    /\ dbCall' = CallKept(user_collection, op, u)
    /\ UNCHANGED <<user_collection, dialog_collection, usageLog>>
    /\ UNCHANGED nonDbVars

DbAddNewUser(u) ==
    /\ user_collection' = add_new_user(user_collection, u)
    /\ dbResult' = "ok"
    /\ dbCall' = CallKept(user_collection, "add_new_user", u)
    /\ UNCHANGED <<dialog_collection, usageLog>>
    /\ UNCHANGED nonDbVars

DbStartNewDialog(u) ==
    /\ ~RaisesUnknownUser(user_collection, u, "start_new_dialog")
    /\ check_if_user_exists(user_collection, u)
    /\ CanStartDialog
    /\ dialog_collection' = start_new_dialog_dc(user_collection, dialog_collection, u)
    /\ user_collection' = start_new_dialog_uc(user_collection, dialog_collection, u)
    /\ dbResult' = "ok"
    /\ dbCall' = CallKept(user_collection, "start_new_dialog", u)
    /\ UNCHANGED usageLog
    /\ UNCHANGED nonDbVars

\* get_user_attribute returns the value (None for a missing key)
DbGetUserAttribute(u) ==
    /\ ~RaisesUnknownUser(user_collection, u, "get_user_attribute")
    /\ dbResult' = "ok"
    /\ dbCall' = CallKept(user_collection, "get_user_attribute", u)
    /\ UNCHANGED <<user_collection, dialog_collection, usageLog>>
    /\ UNCHANGED nonDbVars

DbSetUserAttribute(u, key, value) ==
    /\ ~RaisesUnknownUser(user_collection, u, "set_user_attribute")
    /\ user_collection' = set_user_attribute(user_collection, u, key, value)
    /\ dbResult' = "ok"
    /\ dbCall' = CallKept(user_collection, "set_user_attribute", u)
    /\ UNCHANGED <<dialog_collection, usageLog>>
    /\ UNCHANGED nonDbVars

DbUpdateNUsedTokens(u, m, t) ==
    /\ ~RaisesUnknownUser(user_collection, u, "update_n_used_tokens")
    /\ check_if_user_exists(user_collection, u)
    /\ Len(usageLog) < MaxRecords
    /\ user_collection' = update_n_used_tokens(user_collection, u, m, t[1], t[2])
    /\ usageLog' = Append(usageLog, <<u, m, t[1], t[2]>>)
    /\ dbResult' = "ok"
    /\ dbCall' = CallKept(user_collection, "update_n_used_tokens", u)
    /\ UNCHANGED dialog_collection
    /\ UNCHANGED nonDbVars

\* get_dialog_messages(user_id): find_one returns None when
\* current_dialog_id names no dialog of the user, and None["messages"]
\* raises TypeError
DbGetDialogMessages(u) ==
    /\ ~RaisesUnknownUser(user_collection, u, "get_dialog_messages")
    /\ check_if_user_exists(user_collection, u)
    /\ dbResult' = IF DialogFound(dialog_collection, u, CurrentDialogId(user_collection, u))
                   THEN "ok" ELSE "TypeError"
    /\ dbCall' = CallKept(user_collection, "get_dialog_messages", u)
    /\ UNCHANGED <<user_collection, dialog_collection, usageLog>>
    /\ UNCHANGED nonDbVars

DbSetDialogMessages(u, dialog_messages) ==
    /\ ~RaisesUnknownUser(user_collection, u, "set_dialog_messages")
    /\ check_if_user_exists(user_collection, u)
    /\ dialog_collection' = set_dialog_messages(user_collection, dialog_collection,
                                                u, dialog_messages)
    /\ dbResult' = "ok"
    /\ dbCall' = CallKept(user_collection, "set_dialog_messages", u)
    /\ UNCHANGED <<user_collection, usageLog>>
    /\ UNCHANGED nonDbVars

InitDb ==
    /\ user_collection = EmptyDict
    /\ dialog_collection = EmptyDict
    /\ dbResult = "ok"
    /\ dbCall = NoCall
    /\ usageLog = <<>>

\* the dialog messages handed to set_dialog_messages
StoredMessages ==
    { <<>>, <<[user |-> [kind |-> "str", text |-> <<"q">>], bot |-> <<"b">>]>> }

NextDb ==
    \/ \E u \in Users, op \in DbOps : DbUnknownUser(u, op)
    \/ \E u \in Users : DbAddNewUser(u)
    \/ \E u \in Users : DbStartNewDialog(u)
    \/ \E u \in Users : DbGetUserAttribute(u)
    \/ \E u \in Users, v \in ChatModes :
          DbSetUserAttribute(u, "current_chat_mode", v)
    \/ \E u \in Users, v \in Models :
          DbSetUserAttribute(u, "current_model", v)
    \/ \E u \in Users : DbGetDialogMessages(u)
    \/ \E u \in Users, ms \in StoredMessages : DbSetDialogMessages(u, ms)

NextLedger ==
    \/ \E u \in Users : DbUnknownUser(u, "update_n_used_tokens")
    \/ \E u \in Users : DbAddNewUser(u)
    \/ \E u \in Users, m \in Models, t \in TokenInputs :
          DbUpdateNUsedTokens(u, m, t)

----------------------------------------------------------------------------
(* openai_utils.py: texts, dialog messages and the prompt *)

\* Texts are sequences of one-character strings.
Q(i) == [j \in 1..i |-> "q"]
B(i) == [j \in 1..i |-> "b"]
NewMessage == <<"m">>
ImageBytes == <<"i", "j">>

\* The two shapes of a stored "user" field: a str, or a list of typed blocks
PlainText(t) == [kind |-> "str", text |-> t]
TypedBlocks(bs) == [kind |-> "list", blocks |-> bs]
TextBlock(t) == [type |-> "text", text |-> t]
ImageBlock(b64) == [type |-> "image", image |-> b64]
ImageUrlBlock(b64) == [type |-> "image_url", url |-> b64, detail |-> "high"]

\* base64.b64encode(...).decode("utf-8")
Base64(bytes) == [b64 |-> bytes]

\* new_dialog_message as the handlers build it for the text message and the
\* answer: a text block, and after it the image when one was downloaded
SavedTurn(message, answer, with_image) ==
    [ user |-> IF with_image
               THEN TypedBlocks(<<TextBlock(message), ImageBlock(Base64(ImageBytes))>>)
               ELSE TypedBlocks(<<TextBlock(message)>>),
      bot  |-> answer ]

\* the stored dialog message number i of a history: a str (as older
\* versions stored it), then a message saved with an image, then a message
\* saved without one, and so on
HistoryTurn(i) ==
    IF i % 3 = 1 THEN [user |-> PlainText(Q(i)), bot |-> B(i)]
    ELSE SavedTurn(Q(i), B(i), i % 3 = 2)

History(n) == [i \in 1..n |-> HistoryTurn(i)]

\* config.chat_modes[chat_mode]["prompt_start"]
PromptStart(chat_mode) == <<"s", chat_mode>>

\* a reading of the "user" field that ignores its typed blocks
UserContent_NoBlocks(user) == IF user.kind = "str" THEN user.text ELSE <<>>

\* the for/break over the items of a list-valued "user" field
RECURSIVE FirstTextItem(_)
FirstTextItem(items) ==
    IF items = <<>> THEN <<>>
    ELSE IF items[1].type = "text" THEN items[1].text
         ELSE FirstTextItem(Tail(items))

UserContent(user) ==
    IF user.kind = "str" THEN user.text ELSE FirstTextItem(user.blocks)

\* a loop that emits the assistant message of a dialog message before its
\* user message
RECURSIVE HistoryMessages_BotFirst(_)
HistoryMessages_BotFirst(dialog_messages) ==
    IF dialog_messages = <<>> THEN <<>>
    ELSE << [role |-> "assistant",
             content |-> PlainText(dialog_messages[1].bot)],
            [role |-> "user",
             content |-> PlainText(UserContent(dialog_messages[1].user))] >>
         \o HistoryMessages_BotFirst(Tail(dialog_messages))

RECURSIVE HistoryMessages(_)
HistoryMessages(dialog_messages) ==
    IF dialog_messages = <<>> THEN <<>>
    ELSE << [role |-> "user",
             content |-> PlainText(UserContent(dialog_messages[1].user))],
            [role |-> "assistant",
             content |-> PlainText(dialog_messages[1].bot)] >>
         \o HistoryMessages(Tail(dialog_messages))

\* an io.BytesIO and its read(): the bytes from the position on
NoImage == [present |-> FALSE, data |-> <<>>, pos |-> 0]
ImageBuffer(data) == [present |-> TRUE, data |-> data, pos |-> 0]
BufferRead(buf) == SubSeq(buf.data, buf.pos + 1, Len(buf.data))
BufferAfterRead(buf) ==
    IF buf.present THEN [buf EXCEPT !.pos = Len(buf.data)] ELSE buf

_encode_image(image_buffer) == Base64(BufferRead(image_buffer))

_generate_prompt_messages(message, dialog_messages, chat_mode, image_buffer) ==
    << [role |-> "system", content |-> PlainText(PromptStart(chat_mode))] >>
    \o HistoryMessages(dialog_messages)
    \o << [role |-> "user",
           content |-> IF image_buffer.present
                       THEN TypedBlocks(<<TextBlock(message),
                                ImageUrlBlock(_encode_image(image_buffer))>>)
                       ELSE PlainText(message)] >>

\* str.strip() of a text over the characters "a" and " "
RECURSIVE LStrip(_)
LStrip(t) == IF t # <<>> /\ t[1] = " " THEN LStrip(Tail(t)) ELSE t

RECURSIVE RStrip(_)
RStrip(t) ==
    IF t # <<>> /\ t[Len(t)] = " " THEN RStrip(SubSeq(t, 1, Len(t) - 1)) ELSE t

_postprocess_answer(answer) == RStrip(LStrip(answer))

\* len(encoding.encode(text)): one token per character stands for tiktoken
Encode(text) == Len(text)

TokensPerMessage == 3
TokensPerImage == 85
ReplyPriming == 2

RECURSIVE BlockTokens(_)
BlockTokens(blocks) ==
    IF blocks = <<>> THEN 0
    ELSE (IF blocks[1].type = "text" THEN Encode(blocks[1].text)
          ELSE IF blocks[1].type = "image_url" THEN TokensPerImage ELSE 0)
         + BlockTokens(Tail(blocks))

RECURSIVE InputTokens(_)
InputTokens(messages) ==
    IF messages = <<>> THEN 0
    ELSE TokensPerMessage
         + (IF messages[1].content.kind = "list"
            THEN BlockTokens(messages[1].content.blocks)
            ELSE Encode(messages[1].content.text))
         + InputTokens(Tail(messages))

_count_tokens_from_messages(messages, answer) ==
    << InputTokens(messages) + ReplyPriming, 1 + Encode(answer) >>

----------------------------------------------------------------------------
(* openai_utils.py: send_message, send_message_stream and their vision     *)
(* variants, one remote call or one stream chunk per step                  *)

MaxHistory == 3
MaxChunks == 3

ClientModes == {"message", "message_stream", "vision", "vision_stream"}
StreamModes == {"message_stream", "vision_stream"}
VisionModes == {"vision", "vision_stream"}
\* response.choices[0].message.content of a whole response
WholeAnswers == {<<"a">>, <<" ", "a", " ">>, <<>>}
\* chunk.choices[0].delta.content of a chunk that carries content
Deltas == {<<"a">>, <<" ">>}

UnboundTokens == [bound |-> FALSE, val |-> <<0, 0>>]
UnboundInt == [bound |-> FALSE, val |-> 0]
Bound(v) == [bound |-> TRUE, val |-> v]
AnswerNone == [isNone |-> TRUE, text |-> <<>>]
AnswerText(t) == [isNone |-> FALSE, text |-> t]

ClientIdle ==
    [ pc |-> "idle", mode |-> "message", message |-> <<>>, history |-> <<>>,
      chat_mode |-> "assistant", k |-> 0, image_buffer |-> NoImage,
      dialog_messages |-> <<>>, n_dialog_messages_before |-> 0,
      answer |-> AnswerNone, tokens |-> UnboundTokens,
      n_first_dialog_messages_removed |-> UnboundInt,
      messages |-> <<>>, calls |-> 0, chunks |-> 0, out |-> <<>>,
      error |-> "", streamEnded |-> FALSE, midStreamError |-> FALSE ]

InitClient == client = ClientIdle

Tuple(status, answer, tokens, n_removed) ==
    [status |-> status, answer |-> answer, tokens |-> tokens,
     n_first_dialog_messages_removed |-> n_removed]

\* a call of send_*: the remote accepts a prompt of at most k dialog messages
ClientStart(mode, n, k, cm, img) ==
    /\ client.pc = "idle"
    /\ img => mode \in VisionModes
    /\ client' = [ClientIdle EXCEPT
          !.pc = "call", !.mode = mode, !.message = NewMessage,
          !.history = History(n), !.chat_mode = cm, !.k = k,
          !.image_buffer = IF img THEN ImageBuffer(ImageBytes) ELSE NoImage,
          !.dialog_messages = History(n),
          !.n_dialog_messages_before = Len(History(n))]
    /\ UNCHANGED nonClientVars

\* the prompt is built and client.chat.completions.create is awaited
Called(c) ==
    [c EXCEPT
        !.messages = _generate_prompt_messages(c.message, c.dialog_messages,
                                               c.chat_mode, c.image_buffer),
        !.image_buffer = BufferAfterRead(c.image_buffer),
        !.calls = c.calls + 1]

\* a trim that drops the newest dialog message instead of the oldest
DropOldest_Newest(dialog_messages) ==
    SubSeq(dialog_messages, 1, Len(dialog_messages) - 1)

\* dialog_messages = dialog_messages[1:]
DropOldest(dialog_messages) == Tail(dialog_messages)

\* an except branch that keeps retrying with no dialog message left
OnContextLengthError_NoRaise(c) ==
    IF Len(c.dialog_messages) = 0 THEN c
    ELSE [c EXCEPT !.dialog_messages = DropOldest(c.dialog_messages)]

\* the except branch for a context-length error
OnContextLengthError(c) ==
    IF Len(c.dialog_messages) = 0
    THEN [c EXCEPT !.pc = "raised",
                   !.error = IF c.mode \in StreamModes
                             THEN "context_length_exceeded" ELSE "ValueError"]
    ELSE [c EXCEPT !.dialog_messages = DropOldest(c.dialog_messages)]

\* the remote rejects the prompt: maximum context length
ClientCreateRejected ==
    /\ client.pc = "call"
    /\ Len(client.dialog_messages) > client.k
    /\ client' = OnContextLengthError(Called(client))
    /\ UNCHANGED nonClientVars

\* the remote call fails with another error: re-raised
ClientCreateFailed ==
    /\ client.pc = "call"
    /\ client' = [Called(client) EXCEPT !.pc = "raised", !.error = "RemoteError"]
    /\ UNCHANGED nonClientVars

NRemoved(c) == c.n_dialog_messages_before - Len(c.dialog_messages)

\* send_message / send_vision_message: the response arrives and is returned
ClientWholeResponse(content) ==
    /\ client.pc = "call"
    /\ client.mode \notin StreamModes
    /\ Len(client.dialog_messages) <= client.k
    /\ LET c == Called(client)
           answer == _postprocess_answer(content)
           usage == <<InputTokens(c.messages), Encode(content)>>
       IN  client' = [c EXCEPT
              !.pc = "returned",
              !.answer = AnswerText(answer),
              !.tokens = Bound(usage),
              !.n_first_dialog_messages_removed = Bound(NRemoved(c)),
              !.out = <<Tuple("finished", answer, usage, NRemoved(c))>>]
    /\ UNCHANGED nonClientVars

\* send_*_stream: the stream is opened, answer = ""
ClientStreamOpened ==
    /\ client.pc = "call"
    /\ client.mode \in StreamModes
    /\ Len(client.dialog_messages) <= client.k
    /\ client' = [Called(client) EXCEPT !.pc = "streaming",
                                        !.answer = AnswerText(<<>>)]
    /\ UNCHANGED nonClientVars

\* n_first_dialog_messages_removed of a not_finished tuple
PartialNRemoved(c) == IF c.mode = "vision_stream" THEN NRemoved(c) ELSE 0

\* a chunk with content: one not_finished tuple is yielded
ClientStreamDelta(d) ==
    /\ client.pc = "streaming"
    /\ client.chunks < MaxChunks
    /\ LET answer == client.answer.text \o d
           tokens == _count_tokens_from_messages(client.messages, answer)
       IN  client' = [client EXCEPT
              !.chunks = @ + 1,
              !.answer = AnswerText(answer),
              !.tokens = Bound(tokens),
              !.n_first_dialog_messages_removed = Bound(PartialNRemoved(client)),
              !.out = Append(@, Tuple("not_finished", answer, tokens,
                                      PartialNRemoved(client)))]
    /\ UNCHANGED nonClientVars

\* a chunk whose delta.content is empty or None: nothing is yielded
ClientStreamEmptyChunk ==
    /\ client.pc = "streaming"
    /\ client.chunks < MaxChunks
    /\ client' = [client EXCEPT !.chunks = @ + 1]
    /\ UNCHANGED nonClientVars

\* after the while loop: the last yield, which reads n_input_tokens,
\* n_output_tokens (and, in the vision variant, the loop's
\* n_first_dialog_messages_removed); a local never assigned raises
\* UnboundLocalError
YieldFinished(c) ==
    IF ~c.tokens.bound
    THEN [c EXCEPT !.pc = "raised", !.error = "UnboundLocalError"]
    ELSE LET n == IF c.mode = "vision_stream"
                  THEN c.n_first_dialog_messages_removed.val
                  ELSE NRemoved(c)
         IN  [c EXCEPT !.pc = "finished",
                       !.n_first_dialog_messages_removed = Bound(n),
                       !.out = Append(@, Tuple("finished", c.answer.text,
                                               c.tokens.val, n))]

\* the stream ends: the answer is stripped, the loop is left (answer is a str)
ClientStreamEnd ==
    /\ client.pc = "streaming"
    /\ client' = YieldFinished(
          [client EXCEPT !.streamEnded = TRUE,
                         !.answer = AnswerText(_postprocess_answer(@.text))])
    /\ UNCHANGED nonClientVars

\* the stream raises while it is read. A context-length error drops the
\* oldest dialog message (or is re-raised when there is none); answer is no
\* longer None, so the while loop is left and the finished tuple is yielded
ClientStreamError(kind) ==
    /\ client.pc = "streaming"
    /\ LET c == [client EXCEPT !.midStreamError = TRUE]
       IN  client' =
             IF kind = "context_length_exceeded"
             THEN LET e == OnContextLengthError(c)
                  IN  IF e.pc = "raised" THEN e ELSE YieldFinished(e)
             ELSE [c EXCEPT !.pc = "raised", !.error = "RemoteError"]
    /\ UNCHANGED nonClientVars

NextClient ==
    \/ \E mode \in ClientModes, n \in 0..MaxHistory, k \in -1..MaxHistory,
          cm \in ChatModes, img \in BOOLEAN : ClientStart(mode, n, k, cm, img)
    \/ ClientCreateRejected
    \/ ClientCreateFailed
    \/ \E content \in WholeAnswers : ClientWholeResponse(content)
    \/ ClientStreamOpened
    \/ \E d \in Deltas : ClientStreamDelta(d)
    \/ ClientStreamEmptyChunk
    \/ ClientStreamEnd
    \/ \E kind \in {"context_length_exceeded", "RemoteError"} :
          ClientStreamError(kind)

----------------------------------------------------------------------------
(* bot.py: the delivery loop of message_handle_fn and                      *)
(* _vision_message_handle_fn ("async for gen_item in gen"), one awaited    *)
(* call per step. A text is modelled by its length.                        *)

MaxTuples == 3

Threshold == 100
TelegramLimit == 4096
\* by how much the streamed answer grows from one not_finished tuple to the next
Growths == {40, 60, 100, 4500}
\* len(answer) of the finished tuple of a whole (not streamed) response
WholeLens == {0, 50, 9000}
\* what strip() takes off the streamed answer for the finished tuple
Stripped == {0, 1}

Abs(x) == IF x < 0 THEN -x ELSE x

\* an answer passed on as it is
Truncate_Whole(len) == len

\* answer[:4096]
Truncate(len) == IF len > TelegramLimit THEN TelegramLimit ELSE len

\* a test that applies the threshold to the finished tuple as well
ShouldSkip_AlsoFinished(answer, prev_answer, status) ==
    Abs(answer - prev_answer) < Threshold

\* a test that also skips a difference of exactly the threshold
ShouldSkip_OffByOne(answer, prev_answer, status) ==
    Abs(answer - prev_answer) <= Threshold /\ status # "finished"

\* abs(len(answer) - len(prev_answer)) < 100 and status != "finished"
ShouldSkip(answer, prev_answer, status) ==
    Abs(answer - prev_answer) < Threshold /\ status # "finished"

\* sent: the text of the last edit_message_text call made; saved, bot: the
\* "bot" field of new_dialog_message once it is built
PresenterIdle ==
    [ pc |-> "idle", status |-> "", raw |-> 0, answer |-> 0, prev_answer |-> 0,
      tuples |-> 0, skipped |-> 0, finishedSeen |-> FALSE, pushes |-> <<>>,
      sent |-> 0, saved |-> FALSE, bot |-> 0 ]

InitPresenter == presenter = PresenterIdle

\* prev_answer = "" before the loop
PresenterStart ==
    /\ presenter.pc = "idle"
    /\ presenter' = [presenter EXCEPT !.pc = "next"]
    /\ UNCHANGED nonPresenterVars

\* where the loop goes after an iteration: to the next tuple, or, the
\* generator being exhausted after its finished tuple, out of the loop
AfterIteration(p) == IF p.status = "finished" THEN "done" ELSE "next"

\* a dialog message that stores the answer as the generator gave it
new_dialog_message_bot_Raw(p) == p.raw

\* "bot": answer: the loop variable after the loop
new_dialog_message_bot(p) == p.answer

\* the end of an iteration: the next tuple is awaited, or the loop is left
\* and new_dialog_message is built
Iterated(p) ==
    IF AfterIteration(p) = "done"
    THEN [p EXCEPT !.pc = "done", !.saved = TRUE, !.bot = new_dialog_message_bot(p)]
    ELSE [p EXCEPT !.pc = "next"]

\* gen yields a tuple: truncation, then the threshold test
Consume(p, status, raw) ==
    LET answer == Truncate(raw)
        q == [p EXCEPT !.status = status, !.raw = raw, !.answer = answer,
                       !.tuples = @ + 1,
                       !.finishedSeen = (status = "finished")]
    IN  IF ShouldSkip(answer, p.prev_answer, status)
        THEN [q EXCEPT !.pc = "next", !.skipped = @ + 1]
        ELSE [q EXCEPT !.pc = "edit", !.sent = answer]

\* a not_finished tuple: the answer so far
PresenterPartial(d) ==
    /\ presenter.pc = "next"
    /\ presenter.tuples < MaxTuples
    /\ presenter' = Consume(presenter, "not_finished", presenter.raw + d)
    /\ UNCHANGED nonPresenterVars

\* the finished tuple of a stream: the stripped answer
PresenterFinished(ws) ==
    /\ presenter.pc = "next"
    /\ presenter.tuples > 0
    /\ ws <= presenter.raw
    /\ presenter' = Consume(presenter, "finished", presenter.raw - ws)
    /\ UNCHANGED nonPresenterVars

\* fake_gen: the one finished tuple of a whole response
PresenterWhole(len) ==
    /\ presenter.pc = "next"
    /\ presenter.tuples = 0
    /\ presenter' = Consume(presenter, "finished", len)
    /\ UNCHANGED nonPresenterVars

\* the generator raises: the loop is left through the exception
PresenterGenError ==
    /\ presenter.pc = "next"
    /\ presenter' = [presenter EXCEPT !.pc = "failed"]
    /\ UNCHANGED nonPresenterVars

Push(p, plain) ==
    Append(p.pushes, [len |-> p.answer, status |-> p.status, plain |-> plain])

\* edit_message_text(answer, parse_mode=parse_mode) returns
PresenterEditOk ==
    /\ presenter.pc = "edit"
    /\ presenter' = [presenter EXCEPT !.pc = "sleep", !.pushes = Push(presenter, FALSE)]
    /\ UNCHANGED nonPresenterVars

\* BadRequest "Message is not modified": continue
PresenterEditNotModified ==
    /\ presenter.pc = "edit"
    /\ presenter' = Iterated(presenter)
    /\ UNCHANGED nonPresenterVars

\* another BadRequest: the edit is repeated without parse_mode
PresenterEditBadRequest ==
    /\ presenter.pc = "edit"
    /\ presenter' = [presenter EXCEPT !.pc = "fallback", !.sent = presenter.answer]
    /\ UNCHANGED nonPresenterVars

\* an error that is no BadRequest leaves the loop
PresenterEditError ==
    /\ presenter.pc = "edit"
    /\ presenter' = [presenter EXCEPT !.pc = "failed"]
    /\ UNCHANGED nonPresenterVars

PresenterFallbackOk ==
    /\ presenter.pc = "fallback"
    /\ presenter' = [presenter EXCEPT !.pc = "sleep", !.pushes = Push(presenter, TRUE)]
    /\ UNCHANGED nonPresenterVars

PresenterFallbackError ==
    /\ presenter.pc = "fallback"
    /\ presenter' = [presenter EXCEPT !.pc = "failed"]
    /\ UNCHANGED nonPresenterVars

\* asyncio.sleep(0.01) returns; prev_answer = answer
PresenterSleep ==
    /\ presenter.pc = "sleep"
    /\ presenter' = Iterated([presenter EXCEPT !.prev_answer = presenter.answer])
    /\ UNCHANGED nonPresenterVars

NextPresenter ==
    \/ PresenterStart
    \/ \E d \in Growths : PresenterPartial(d)
    \/ \E ws \in Stripped : PresenterFinished(ws)
    \/ \E len \in WholeLens : PresenterWhole(len)
    \/ PresenterGenError
    \/ PresenterEditOk
    \/ PresenterEditNotModified
    \/ PresenterEditBadRequest
    \/ PresenterEditError
    \/ PresenterFallbackOk
    \/ PresenterFallbackError
    \/ PresenterSleep

----------------------------------------------------------------------------
(* bot.py: message_handle, cancel_handle, retry_handle, start_handle,      *)
(* new_dialog_handle, set_chat_mode_handle, set_settings_handle,           *)
(* error_handle and the tasks that message_handle spawns                   *)
(* (message_handle_fn, _vision_message_handle_fn). One step runs a         *)
(* coroutine from one await to the next; the Database calls are            *)
(* synchronous and belong to the step that makes them. What an awaited     *)
(* call of the transport or of the completion client answers is chosen by  *)
(* the environment: the tuple it yields, whether the threshold test lets   *)
(* it through, the error it raises. The clock is not modelled: the time    *)
(* since last_interaction is chosen when the task starts.                  *)

MaxRequests == 2
MaxPartials == 2

ReqIds == 1..MaxRequests
VisionModels == {"gpt-4-vision-preview", "gpt-4o"}
\* the tokens a tuple carries: the prompt estimate and the output so far
PromptTokens == 5

Msg(i) == [j \in 1..i |-> "m"]
Ans(i) == [j \in 1..i |-> "a"]

\* the text of the /retry command, and the question the vision task asks
\* about a photo without a caption
RetryCommand == <<"/", "r">>
DefaultQuestion == <<"?">>

\* pc: where the coroutine waits; kind: the handler; photo, empty: the
\* update's message; data: the value of a callback query; message: the
\* message argument of message_handle; error: the exception that left it
HandlerIdle == [pc |-> "idle", kind |-> "", user |-> "", photo |-> FALSE,
                empty |-> FALSE, data |-> "", message |-> <<>>, error |-> ""]

\* a handler that has returned or raised: its locals are gone
HandlerDone == [HandlerIdle EXCEPT !.pc = "done"]

\* read_dialog: the dialog whose messages the task read for its prompt
TaskNone ==
    [ state |-> "none", must_cancel |-> FALSE, variant |-> "", model |-> "",
      tokens |-> <<0, 0>>, nparts |-> 0, status |-> "",
      n_first_dialog_messages_removed |-> 0, usageRecorded |-> FALSE,
      read_dialog |-> None ]

InitHandlers ==
    /\ user_semaphores = EmptyDict
    /\ user_tasks = EmptyDict
    /\ handlers = [i \in ReqIds |-> HandlerIdle]
    /\ tasks = [i \in ReqIds |-> TaskNone]

\* a task whose result its handler has received: its locals are gone
TaskCollected == [TaskNone EXCEPT !.state = "collected"]

\* a task that has ended by returning, raising or being cancelled
Ended(how) == [TaskNone EXCEPT !.state = how]

TaskEnded == {"returned", "raised", "cancelled", "collected"}
\* a try block that also covers the replies awaited after it
InTry_All ==
    {"placeholder", "typing", "empty_reply", "gen", "edit", "fallback", "sleep",
     "removed_reply", "error_reply"}

\* the awaits inside the try block of the task
InTry == {"placeholder", "typing", "empty_reply", "gen", "edit", "fallback", "sleep"}
\* the awaits of the task outside its try block
OutsideTry == {"timeout_reply", "unsupported_reply", "get_file", "download",
               "removed_reply", "error_reply"}

\* register_user_if_not_exists: the user collection, the dialog collection
\* and the semaphores after the call
RegisterUc(uc, dc, u) ==
    IF check_if_user_exists(uc, u)
    THEN IF CurrentDialogId(uc, u) = None THEN start_new_dialog_uc(uc, dc, u) ELSE uc
    ELSE start_new_dialog_uc(add_new_user(uc, u), dc, u)

RegisterDc(uc, dc, u) ==
    IF check_if_user_exists(uc, u)
    THEN IF CurrentDialogId(uc, u) = None THEN start_new_dialog_dc(uc, dc, u) ELSE dc
    ELSE start_new_dialog_dc(add_new_user(uc, u), dc, u)

\* asyncio.Semaphore(1): a new object, the n-th one made for its user
Semaphore(n) == [value |-> 1, object |-> n]

\* a registration that makes a new semaphore at every update
RegisterSemaphores_Always(sems, u) ==
    [x \in DOMAIN sems \cup {u} |->
        IF x # u THEN sems[x]
        ELSE IF u \in DOMAIN sems THEN Semaphore(sems[u].object + 1)
        ELSE Semaphore(1)]

\* if user.id not in user_semaphores: user_semaphores[user.id] = asyncio.Semaphore(1)
RegisterSemaphores(sems, u) ==
    IF u \in DOMAIN sems THEN sems
    ELSE [x \in DOMAIN sems \cup {u} |-> IF x = u THEN Semaphore(1) ELSE sems[x]]

CanRegister(u) == check_if_user_exists(user_collection, u) \/ CanStartDialog

\* a test on one semaphore shared by all users
IsLocked_Any(sems, u) == \E v \in DOMAIN sems : sems[v].value = 0

\* a test that never finds the semaphore locked
IsLocked_Never(sems, u) == FALSE

\* user_semaphores[user_id].locked()
IsLocked(sems, u) == sems[u].value = 0

\* a rejected handler that waits for the semaphore instead of returning
Rejected_Queued(h) == [h EXCEPT !.pc = "wait_lock"]

\* is_previous_message_not_answered_yet returned True: the please-wait
\* reply is awaited, then message_handle returns
Rejected(h) == [h EXCEPT !.pc = "busy_reply"]

\* the next update is handed to a handler: requests are numbered as they arrive
Arrives(i) ==
    /\ handlers[i].pc = "idle"
    /\ i > 1 => handlers[i - 1].pc # "idle"

SetAt(f, x, v) == [y \in DOMAIN f \cup {x} |-> IF y = x THEN v ELSE f[y]]
RemoveAt(f, x) == [y \in DOMAIN f \ {x} |-> f[y]]

\* message_handle up to "await task": registration, the locked() test, then
\* (no await in between) the semaphore, the routing and the task
HMessageArrive(i, u, photo, empty) ==
    /\ Arrives(i)
    /\ CanRegister(u)
    /\ photo => ~empty
    /\ LET uc1 == RegisterUc(user_collection, dialog_collection, u)
           dc1 == RegisterDc(user_collection, dialog_collection, u)
           sems1 == RegisterSemaphores(user_semaphores, u)
           h == [HandlerIdle EXCEPT !.kind = "message", !.user = u,
                                    !.photo = photo, !.empty = empty]
           model0 == get_user_attribute(uc1, u, "current_model")
           vision == model0 \in VisionModels \/ photo
           model == IF vision /\ model0 \notin VisionModels THEN "gpt-4o" ELSE model0
       IN  /\ dialog_collection' = dc1
           /\ IF IsLocked(sems1, u)
              THEN /\ handlers' = [handlers EXCEPT ![i] = Rejected(h)]
                   /\ user_collection' = uc1
                   /\ user_semaphores' = sems1
                   /\ UNCHANGED <<user_tasks, tasks>>
              ELSE IF sems1[u].value = 0
              THEN \* async with on a locked semaphore waits (never reached)
                   /\ handlers' = [handlers EXCEPT ![i] = [h EXCEPT !.pc = "wait_lock"]]
                   /\ user_collection' = uc1
                   /\ user_semaphores' = sems1
                   /\ UNCHANGED <<user_tasks, tasks>>
              ELSE /\ handlers' = [handlers EXCEPT ![i] = [h EXCEPT !.pc = "await_task"]]
                   /\ user_collection' =
                        IF model # model0
                        THEN set_user_attribute(uc1, u, "current_model", model)
                        ELSE uc1
                   /\ user_semaphores' = [sems1 EXCEPT ![u].value = 0]
                   /\ user_tasks' = SetAt(user_tasks, u, i)
                   /\ tasks' = [tasks EXCEPT ![i] =
                        [TaskNone EXCEPT !.state = "created",
                                         !.variant = IF vision THEN "vision" ELSE "text",
                                         !.model = model]]
    /\ UNCHANGED nonHandlerVars

\* the reply of a request that found the semaphore locked returns
HBusyReply(i) ==
    /\ handlers[i].pc = "busy_reply"
    /\ handlers' = [handlers EXCEPT ![i] = HandlerDone]
    /\ UNCHANGED <<user_collection, dialog_collection, user_semaphores, user_tasks, tasks>>
    /\ UNCHANGED nonHandlerVars

\* "if await is_previous_message_not_answered_yet(...): return" of
\* retry_handle left out
RetryRejected_Never(sems, u) == FALSE

\* retry_handle returns early: is_previous_message_not_answered_yet
RetryRejected(sems, u) == IsLocked(sems, u)

\* dialog_messages.pop(): the list without its last item
Popped(dialog_messages) == SubSeq(dialog_messages, 1, Len(dialog_messages) - 1)

\* user_message of retry_handle: the user text of the removed dialog
\* message, the first text item when it is a list
user_message(last_dialog_message) == UserContent(last_dialog_message.user)

\* retry_handle: the locked() test, the removal of the last dialog message
\* and (no await in between) message_handle with the removed text, which
\* tests locked() again, takes the semaphore and creates the task
HRetryArrive(i, u) ==
    /\ Arrives(i)
    /\ CanRegister(u)
    /\ LET uc1 == RegisterUc(user_collection, dialog_collection, u)
           dc1 == RegisterDc(user_collection, dialog_collection, u)
           sems1 == RegisterSemaphores(user_semaphores, u)
           h == [HandlerIdle EXCEPT !.kind = "retry", !.user = u]
           dialog_messages == get_dialog_messages(uc1, dc1, u)
           dc2 == set_dialog_messages(uc1, dc1, u, Popped(dialog_messages))
           hm == [h EXCEPT !.message =
                    user_message(dialog_messages[Len(dialog_messages)])]
           model == get_user_attribute(uc1, u, "current_model")
       IN  /\ user_collection' = uc1
           /\ IF RetryRejected(sems1, u)
              THEN /\ handlers' = [handlers EXCEPT ![i] = Rejected(h)]
                   /\ dialog_collection' = dc1
                   /\ user_semaphores' = sems1
                   /\ UNCHANGED <<user_tasks, tasks>>
              ELSE IF Len(dialog_messages) = 0
              THEN \* the nothing-to-retry reply
                   /\ handlers' = [handlers EXCEPT ![i] = [h EXCEPT !.pc = "last_reply"]]
                   /\ dialog_collection' = dc1
                   /\ user_semaphores' = sems1
                   /\ UNCHANGED <<user_tasks, tasks>>
              ELSE IF IsLocked(sems1, u)
              THEN \* message_handle finds the semaphore locked
                   /\ handlers' = [handlers EXCEPT ![i] = Rejected(hm)]
                   /\ dialog_collection' = dc2
                   /\ user_semaphores' = sems1
                   /\ UNCHANGED <<user_tasks, tasks>>
              ELSE /\ handlers' = [handlers EXCEPT ![i] = [hm EXCEPT !.pc = "await_task"]]
                   /\ dialog_collection' = dc2
                   /\ user_semaphores' = [sems1 EXCEPT ![u].value = 0]
                   /\ user_tasks' = SetAt(user_tasks, u, i)
                   /\ tasks' = [tasks EXCEPT ![i] =
                        [TaskNone EXCEPT
                            !.state = "created",
                            !.variant = IF model \in VisionModels
                                        THEN "vision" ELSE "text",
                            !.model = model]]
    /\ UNCHANGED nonHandlerVars

\* start_handle up to its first reply: registration, then
\* db.start_new_dialog(user_id) whatever the semaphore says
HStartArrive(i, u) ==
    /\ Arrives(i)
    /\ CanRegister(u)
    /\ LET uc1 == RegisterUc(user_collection, dialog_collection, u)
           dc1 == RegisterDc(user_collection, dialog_collection, u)
       IN  /\ Cardinality(DOMAIN dc1) < MaxDialogs
           /\ user_collection' = start_new_dialog_uc(uc1, dc1, u)
           /\ dialog_collection' = start_new_dialog_dc(uc1, dc1, u)
    /\ user_semaphores' = RegisterSemaphores(user_semaphores, u)
    /\ handlers' = [handlers EXCEPT ![i] =
          [HandlerIdle EXCEPT !.pc = "last_reply", !.kind = "start", !.user = u]]
    /\ UNCHANGED <<user_tasks, tasks>>
    /\ UNCHANGED nonHandlerVars

\* new_dialog_handle up to its first reply: the locked() test, then
\* db.start_new_dialog(user_id)
HNewDialogArrive(i, u) ==
    /\ Arrives(i)
    /\ CanRegister(u)
    /\ LET uc1 == RegisterUc(user_collection, dialog_collection, u)
           dc1 == RegisterDc(user_collection, dialog_collection, u)
           sems1 == RegisterSemaphores(user_semaphores, u)
           h == [HandlerIdle EXCEPT !.kind = "new_dialog", !.user = u]
       IN  /\ user_semaphores' = sems1
           /\ IF IsLocked(sems1, u)
              THEN /\ handlers' = [handlers EXCEPT ![i] = Rejected(h)]
                   /\ user_collection' = uc1
                   /\ dialog_collection' = dc1
              ELSE /\ Cardinality(DOMAIN dc1) < MaxDialogs
                   /\ handlers' = [handlers EXCEPT ![i] = [h EXCEPT !.pc = "last_reply"]]
                   /\ user_collection' = start_new_dialog_uc(uc1, dc1, u)
                   /\ dialog_collection' = start_new_dialog_dc(uc1, dc1, u)
    /\ UNCHANGED <<user_tasks, tasks>>
    /\ UNCHANGED nonHandlerVars

\* the callback handlers and the user attribute each one sets
CallbackKinds == {"set_chat_mode", "set_settings"}
CallbackKey(kind) ==
    IF kind = "set_chat_mode" THEN "current_chat_mode" ELSE "current_model"
\* config.chat_modes / config.models["available_text_models"]
CallbackValues(kind) == IF kind = "set_chat_mode" THEN ChatModes ELSE Models
\* the values a callback query can carry: a configured one, or another
CallbackData(kind) == CallbackValues(kind) \cup {"unknown"}

\* set_chat_mode_handle / set_settings_handle up to "await query.answer()"
HCallbackArrive(i, u, kind, data) ==
    /\ Arrives(i)
    /\ CanRegister(u)
    /\ data \in CallbackData(kind)
    /\ user_collection' = RegisterUc(user_collection, dialog_collection, u)
    /\ dialog_collection' = RegisterDc(user_collection, dialog_collection, u)
    /\ user_semaphores' = RegisterSemaphores(user_semaphores, u)
    /\ handlers' = [handlers EXCEPT ![i] =
          [HandlerIdle EXCEPT !.pc = "query_answer", !.kind = kind, !.user = u,
                              !.data = data]]
    /\ UNCHANGED <<user_tasks, tasks>>
    /\ UNCHANGED nonHandlerVars

\* query.answer() returns: a configured value is stored and
\* db.start_new_dialog(user_id) follows, whatever the semaphore says; the
\* awaits after it are inside the handler's try block and change nothing
HCallbackAnswered(i) ==
    /\ handlers[i].pc = "query_answer"
    /\ LET u == handlers[i].user
           kind == handlers[i].kind
           uc1 == set_user_attribute(user_collection, u, CallbackKey(kind),
                                     handlers[i].data)
       IN  IF handlers[i].data \in CallbackValues(kind)
           THEN /\ CanStartDialog
                /\ user_collection' = start_new_dialog_uc(uc1, dialog_collection, u)
                /\ dialog_collection' = start_new_dialog_dc(uc1, dialog_collection, u)
           ELSE UNCHANGED <<user_collection, dialog_collection>>
    /\ handlers' = [handlers EXCEPT ![i] = HandlerDone]
    /\ UNCHANGED <<user_semaphores, user_tasks, tasks>>
    /\ UNCHANGED nonHandlerVars

\* query.answer() raises: except Exception logs it and the handler returns
HCallbackAnswerRaises(i) ==
    /\ handlers[i].pc = "query_answer"
    /\ handlers' = [handlers EXCEPT ![i] = HandlerDone]
    /\ UNCHANGED <<user_collection, dialog_collection, user_semaphores, user_tasks, tasks>>
    /\ UNCHANGED nonHandlerVars

\* the replies of start_handle, new_dialog_handle and the nothing-to-retry
\* reply return
HLastReply(i) ==
    /\ handlers[i].pc = "last_reply"
    /\ handlers' = [handlers EXCEPT ![i] = HandlerDone]
    /\ UNCHANGED <<user_collection, dialog_collection, user_semaphores, user_tasks, tasks>>
    /\ UNCHANGED nonHandlerVars

\* cancel_handle: task.cancel() on the registered task, or the
\* nothing-to-cancel reply; cancel() of a task that has ended does nothing
HCancelArrive(i, u) ==
    /\ Arrives(i)
    /\ CanRegister(u)
    /\ user_collection' = RegisterUc(user_collection, dialog_collection, u)
    /\ dialog_collection' = RegisterDc(user_collection, dialog_collection, u)
    /\ user_semaphores' = RegisterSemaphores(user_semaphores, u)
    /\ handlers' = [handlers EXCEPT ![i] = HandlerDone]
    /\ IF u \in DOMAIN user_tasks
       THEN tasks' = [tasks EXCEPT ![user_tasks[u]].must_cancel =
                         @ \/ tasks[user_tasks[u]].state \notin TaskEnded]
       ELSE \* the nothing-to-cancel reply
            tasks' = tasks
    /\ UNCHANGED user_tasks
    /\ UNCHANGED nonHandlerVars

----------------------------------------------------------------------------
(* the task: message_handle_fn / _vision_message_handle_fn *)

Runs(i, pc) == tasks[i].state = pc /\ ~tasks[i].must_cancel

TaskOnly(i, t) ==
    /\ tasks' = [tasks EXCEPT ![i] = t]
    /\ UNCHANGED <<user_collection, dialog_collection, user_semaphores,
                   user_tasks, handlers>>
    /\ UNCHANGED nonHandlerVars

\* update.message.text (the caption of a photo): the text of the command
\* for /retry
UpdateText(i) ==
    IF handlers[i].kind = "retry" THEN RetryCommand
    ELSE IF handlers[i].empty THEN <<>>
    ELSE Msg(i)

\* the text the task sends to the model and saves: message_handle_fn takes
\* "message or update.message.text", _vision_message_handle_fn takes
\* "update.message.caption or update.message.text or" the default question
_message(i) ==
    IF tasks[i].variant = "vision"
    THEN IF UpdateText(i) # <<>> THEN UpdateText(i) ELSE DefaultQuestion
    ELSE IF handlers[i].message # <<>> THEN handlers[i].message ELSE UpdateText(i)

\* where the vision task goes once the dialog timeout is dealt with
AfterTimeout(i) ==
    IF tasks[i].variant = "vision" /\ handlers[i].photo THEN "get_file"
    ELSE "placeholder"

\* retry_handle calls message_handle(..., use_new_dialog_timeout=False)
use_new_dialog_timeout(i) == handlers[i].kind # "retry"

\* config.new_dialog_timeout, in seconds
new_dialog_timeout == 600

\* datetime.now() - last_interaction, in whole seconds: less than, equal to
\* and more than the timeout, and the same around one day
Elapsed == {0, new_dialog_timeout, new_dialog_timeout + 1,
            24 * 3600 - 1, 24 * 3600, 24 * 3600 + new_dialog_timeout + 1}

\* timedelta.seconds: the seconds of the duration within its last day
seconds(elapsed) == elapsed % (24 * 3600)

\* the task runs up to its first await
TaskStart(i, elapsed) ==
    /\ Runs(i, "created")
    /\ LET u == handlers[i].user
           unsupported ==
              /\ tasks[i].variant = "vision"
              /\ get_user_attribute(user_collection, u, "current_model") \notin VisionModels
           timeout ==
              /\ ~unsupported
              /\ use_new_dialog_timeout(i)
              /\ seconds(elapsed) > new_dialog_timeout
              /\ Len(get_dialog_messages(user_collection, dialog_collection, u)) > 0
       IN  /\ timeout => CanStartDialog
           /\ tasks' = [tasks EXCEPT
                  ![i].state = IF unsupported THEN "unsupported_reply"
                               ELSE IF timeout THEN "timeout_reply"
                               ELSE AfterTimeout(i),
                  \* the vision task reads current_model itself
                  ![i].model = IF tasks[i].variant = "vision"
                               THEN get_user_attribute(user_collection, u, "current_model")
                               ELSE @]
           /\ user_collection' =
                IF timeout THEN start_new_dialog_uc(user_collection, dialog_collection, u)
                ELSE user_collection
           /\ dialog_collection' =
                IF timeout THEN start_new_dialog_dc(user_collection, dialog_collection, u)
                ELSE dialog_collection
    /\ UNCHANGED <<user_semaphores, user_tasks, handlers>>
    /\ UNCHANGED nonHandlerVars

\* the "new dialog started" reply returns
TaskTimeoutReply(i) ==
    /\ Runs(i, "timeout_reply")
    /\ TaskOnly(i, [tasks[i] EXCEPT !.state = AfterTimeout(i)])

\* get_file returns
TaskGetFile(i) ==
    /\ Runs(i, "get_file")
    /\ TaskOnly(i, [tasks[i] EXCEPT !.state = "download"])

\* download_to_memory returns; n_input_tokens, n_output_tokens = 0, 0; try:
TaskDownload(i) ==
    /\ Runs(i, "download")
    /\ TaskOnly(i, [tasks[i] EXCEPT !.state = "placeholder"])

\* the placeholder reply returns
TaskPlaceholder(i) ==
    /\ Runs(i, "placeholder")
    /\ TaskOnly(i, [tasks[i] EXCEPT !.state = "typing"])

\* send_action returns; an empty text message is answered and dropped,
\* otherwise the dialog is read and the generator is started
TaskTyping(i) ==
    /\ Runs(i, "typing")
    /\ TaskOnly(i,
          IF tasks[i].variant = "text" /\ _message(i) = <<>>
          THEN [tasks[i] EXCEPT !.state = "empty_reply"]
          ELSE [tasks[i] EXCEPT
                  !.state = "gen",
                  !.read_dialog = CurrentDialogId(user_collection, handlers[i].user)])

\* a reply after which the task returns: the empty-message reply, the
\* removed-messages note, the failure reply, the unsupported-model reply
TaskLastReply(i) ==
    /\ \/ Runs(i, "empty_reply")
       \/ Runs(i, "removed_reply")
       \/ Runs(i, "error_reply")
       \/ Runs(i, "unsupported_reply")
    /\ TaskOnly(i, Ended("returned"))

\* the generator yields a not_finished tuple; the threshold test skips it
\* (continue) or lets it through to the edit
TaskPartial(i, skip) ==
    /\ Runs(i, "gen")
    /\ tasks[i].nparts < MaxPartials
    /\ TaskOnly(i, [tasks[i] EXCEPT
          !.state = IF skip THEN "gen" ELSE "edit",
          !.status = "not_finished",
          !.nparts = @ + 1,
          !.tokens = <<PromptTokens, tasks[i].nparts + 2>>,
          !.n_first_dialog_messages_removed = 0])

\* the generator yields its finished tuple (the only tuple of a whole
\* response): tokens of the last not_finished tuple, or the usage of a whole
\* response; n_removed of the dialog messages read for the prompt were
\* dropped from it
TaskFinishedTuple(i, n_removed) ==
    /\ Runs(i, "gen")
    /\ n_removed <= Len(dialog_collection[tasks[i].read_dialog].messages)
    /\ TaskOnly(i, [tasks[i] EXCEPT
          !.state = "edit",
          !.status = "finished",
          !.tokens = IF tasks[i].nparts = 0 THEN <<PromptTokens, 2>> ELSE @,
          !.n_first_dialog_messages_removed = n_removed])

\* the generator raises (a remote error, the unassigned token counts):
\* except Exception, the failure reply is awaited
TaskGenRaises(i) ==
    /\ Runs(i, "gen")
    /\ TaskOnly(i, [tasks[i] EXCEPT !.state = "error_reply"])

\* new_dialog_message: the vision task stores the downloaded image (buf.getvalue())
\* next to the text
new_dialog_message(i) ==
    SavedTurn(_message(i), Ans(i), tasks[i].variant = "vision" /\ handlers[i].photo)

\* db.set_dialog_messages(user_id, db.get_dialog_messages(user_id) + [new_dialog_message])
SavedDc(i) ==
    LET u == handlers[i].user
    IN  set_dialog_messages(user_collection, dialog_collection, u,
            Append(get_dialog_messages(user_collection, dialog_collection, u),
                   new_dialog_message(i)))

\* db.update_n_used_tokens(user_id, current_model, n_input_tokens, n_output_tokens)
RecordedUc(i) ==
    update_n_used_tokens(user_collection, handlers[i].user, tasks[i].model,
                         tasks[i].tokens[1], tasks[i].tokens[2])

\* the loop is left after the finished tuple: save, record, and the note
\* about removed messages (text variant) or the end of the task
Complete(i) ==
    /\ dialog_collection' = SavedDc(i)
    /\ user_collection' = RecordedUc(i)
    /\ tasks' = [tasks EXCEPT ![i] =
          IF /\ tasks[i].variant = "text"
             /\ tasks[i].n_first_dialog_messages_removed > 0
          THEN [@ EXCEPT !.state = "removed_reply", !.usageRecorded = TRUE]
          ELSE Ended("returned")]
    /\ UNCHANGED <<user_semaphores, user_tasks, handlers>>
    /\ UNCHANGED nonHandlerVars

\* an except Exception clause that records the usage as the
\* CancelledError clause does
TaskSaveRaises_Records(i) ==
    /\ Runs(i, "edit") \/ Runs(i, "sleep")
    /\ tasks[i].status = "finished"
    /\ tasks' = [tasks EXCEPT ![i] = [@ EXCEPT !.state = "error_reply"]]
    /\ user_collection' = RecordedUc(i)
    /\ UNCHANGED <<dialog_collection, user_semaphores, user_tasks, handlers>>
    /\ UNCHANGED nonHandlerVars

\* the loop is left after the finished tuple and the store raises in
\* db.get_dialog_messages or db.set_dialog_messages: nothing is written,
\* except Exception, the failure reply is awaited
TaskSaveRaises(i) ==
    /\ Runs(i, "edit") \/ Runs(i, "sleep")
    /\ tasks[i].status = "finished"
    /\ TaskOnly(i, [tasks[i] EXCEPT !.state = "error_reply"])

\* edit_message_text(answer, parse_mode=...) returns
TaskEditOk(i) ==
    /\ Runs(i, "edit")
    /\ TaskOnly(i, [tasks[i] EXCEPT !.state = "sleep"])

\* BadRequest "Message is not modified": continue
TaskEditNotModified(i) ==
    /\ Runs(i, "edit")
    /\ IF tasks[i].status = "finished"
       THEN Complete(i)
       ELSE TaskOnly(i, [tasks[i] EXCEPT !.state = "gen"])

\* another BadRequest: the edit without parse_mode is awaited
TaskEditBadRequest(i) ==
    /\ Runs(i, "edit")
    /\ TaskOnly(i, [tasks[i] EXCEPT !.state = "fallback"])

\* the edit raises an error that is no BadRequest, or the second edit raises
TaskEditRaises(i) ==
    /\ Runs(i, "edit") \/ Runs(i, "fallback")
    /\ TaskOnly(i, [tasks[i] EXCEPT !.state = "error_reply"])

TaskFallbackOk(i) ==
    /\ Runs(i, "fallback")
    /\ TaskOnly(i, [tasks[i] EXCEPT !.state = "sleep"])

\* asyncio.sleep(0.01) returns; prev_answer = answer
TaskSleep(i) ==
    /\ Runs(i, "sleep")
    /\ IF tasks[i].status = "finished"
       THEN Complete(i)
       ELSE TaskOnly(i, [tasks[i] EXCEPT !.state = "gen"])

\* an awaited transport call raises: inside the try block the failure
\* reply follows, outside it the exception ends the task
TaskAwaitRaises(i) ==
    /\ ~tasks[i].must_cancel
    /\ tasks[i].state \in (OutsideTry \cup {"placeholder", "typing", "empty_reply"})
    /\ TaskOnly(i, IF tasks[i].state \in InTry
                    THEN [tasks[i] EXCEPT !.state = "error_reply"]
                    ELSE Ended("raised"))

\* CancelledError is thrown into the task at its await: inside the try block
\* the usage is recorded and the error re-raised, elsewhere it just ends
\* the task
TaskCancelled(i) ==
    /\ tasks[i].must_cancel
    /\ tasks[i].state \notin (TaskEnded \cup {"none"})
    /\ tasks' = [tasks EXCEPT ![i] = Ended("cancelled")]
    /\ user_collection' =
         IF tasks[i].state \in InTry THEN RecordedUc(i) ELSE user_collection
    /\ UNCHANGED <<dialog_collection, user_semaphores, user_tasks, handlers>>
    /\ UNCHANGED nonHandlerVars

----------------------------------------------------------------------------
(* message_handle after "await task" *)

\* an async with that does not release the semaphore
Released_Held(sems, u) == sems

\* finally: del user_tasks[user_id]; the async with releases the semaphore
Released(sems, u) == [sems EXCEPT ![u].value = @ + 1]

\* a handler that leaves the registry entry behind
Unregistered_Kept(ut, u) == ut

Unregistered(ut, u) == IF u \in DOMAIN ut THEN RemoveAt(ut, u) ELSE ut

\* the exception an awaited call of the transport raises, as str() gives it
TransportError == "Timed out"

\* a handler that raised: the application calls error_handle with the
\* exception in context.error
Raised(error) == [HandlerDone EXCEPT !.pc = "error_handle", !.error = error]

\* the awaited task has ended: a cancelled task is confirmed to the user
\* first, otherwise the entry is removed and the semaphore released; the
\* exception of a task that raised leaves message_handle
HTaskEnded(i) ==
    /\ handlers[i].pc = "await_task"
    /\ tasks[i].state \in {"returned", "raised", "cancelled"}
    /\ tasks' = [tasks EXCEPT ![i] = TaskCollected]
    /\ IF tasks[i].state = "cancelled"
       THEN /\ handlers' = [handlers EXCEPT ![i].pc = "cancel_reply"]
            /\ UNCHANGED <<user_semaphores, user_tasks>>
       ELSE /\ handlers' = [handlers EXCEPT ![i] =
                  IF tasks[i].state = "raised" THEN Raised(TransportError)
                  ELSE HandlerDone]
            /\ user_tasks' = Unregistered(user_tasks, handlers[i].user)
            /\ user_semaphores' = Released(user_semaphores, handlers[i].user)
    /\ UNCHANGED <<user_collection, dialog_collection>>
    /\ UNCHANGED nonHandlerVars

\* the "cancelled" reply returns; finally and the release follow
HCancelReply(i) ==
    /\ handlers[i].pc = "cancel_reply"
    /\ handlers' = [handlers EXCEPT ![i] = HandlerDone]
    /\ user_tasks' = Unregistered(user_tasks, handlers[i].user)
    /\ user_semaphores' = Released(user_semaphores, handlers[i].user)
    /\ UNCHANGED <<user_collection, dialog_collection, tasks>>
    /\ UNCHANGED nonHandlerVars

\* a reply awaited by a handler outside any try block raises: finally and
\* the release first where the handler holds the semaphore
HReplyRaises(i) ==
    /\ handlers[i].pc \in {"busy_reply", "last_reply", "cancel_reply"}
    /\ handlers' = [handlers EXCEPT ![i] = Raised(TransportError)]
    /\ IF handlers[i].pc = "cancel_reply"
       THEN /\ user_tasks' = Unregistered(user_tasks, handlers[i].user)
            /\ user_semaphores' = Released(user_semaphores, handlers[i].user)
       ELSE UNCHANGED <<user_semaphores, user_tasks>>
    /\ UNCHANGED <<user_collection, dialog_collection, tasks>>
    /\ UNCHANGED nonHandlerVars

\* the parts of a text sent to the user
GenericFailure == <<"failed, try again">>
\* error_message of error_handle: str(context.error)[:500] between a
\* heading and a hint
error_message(error) == <<"an error occurred", error, "try again or send /help">>

\* error_handle: send_message(error_message) returns, or raises into its
\* own except Exception
error_handle(i) ==
    /\ handlers[i].pc = "error_handle"
    /\ handlers' = [handlers EXCEPT ![i] = HandlerDone]
    /\ UNCHANGED <<user_collection, dialog_collection, user_semaphores, user_tasks, tasks>>
    /\ UNCHANGED nonHandlerVars

\* the steps of request i that need no new update from a user
Progress(i) ==
    \/ HBusyReply(i)
    \/ HCallbackAnswered(i)
    \/ HCallbackAnswerRaises(i)
    \/ HLastReply(i)
    \/ HReplyRaises(i)
    \/ error_handle(i)
    \/ \E elapsed \in Elapsed : TaskStart(i, elapsed)
    \/ TaskTimeoutReply(i)
    \/ TaskGetFile(i)
    \/ TaskDownload(i)
    \/ TaskPlaceholder(i)
    \/ TaskTyping(i)
    \/ TaskLastReply(i)
    \/ \E skip \in BOOLEAN : TaskPartial(i, skip)
    \/ \E n \in 0..1 : TaskFinishedTuple(i, n)
    \/ TaskGenRaises(i)
    \/ TaskEditOk(i)
    \/ TaskEditNotModified(i)
    \/ TaskEditBadRequest(i)
    \/ TaskEditRaises(i)
    \/ TaskFallbackOk(i)
    \/ TaskSleep(i)
    \/ TaskSaveRaises(i)
    \/ TaskAwaitRaises(i)
    \/ TaskCancelled(i)
    \/ HTaskEnded(i)
    \/ HCancelReply(i)

Next ==
    \/ \E i \in ReqIds, u \in Users, photo \in BOOLEAN, empty \in BOOLEAN :
          HMessageArrive(i, u, photo, empty)
    \/ \E i \in ReqIds, u \in Users : HCancelArrive(i, u)
    \/ \E i \in ReqIds, u \in Users : HRetryArrive(i, u)
    \/ \E i \in ReqIds, u \in Users : HStartArrive(i, u)
    \/ \E i \in ReqIds, u \in Users : HNewDialogArrive(i, u)
    \/ \E i \in ReqIds, u \in Users, kind \in CallbackKinds :
          \E data \in CallbackData(kind) : HCallbackArrive(i, u, kind, data)
    \/ \E i \in ReqIds : Progress(i)

----------------------------------------------------------------------------
(* The state after construction, and the specifications *)

Init ==
    /\ InitDb
    /\ InitClient
    /\ InitPresenter
    /\ InitHandlers

\* The collections outlive the process: when the bot starts, the store is
\* empty or holds what an earlier run left, here a user with one saved
\* dialog message in the current dialog.
StoredUser == "u1"

StoredUc ==
    start_new_dialog_uc(add_new_user(EmptyDict, StoredUser), EmptyDict, StoredUser)

StoredDc ==
    set_dialog_messages(StoredUc,
        start_new_dialog_dc(add_new_user(EmptyDict, StoredUser), EmptyDict, StoredUser),
        StoredUser, <<SavedTurn(Q(1), B(1), FALSE)>>)

InitBot ==
    /\ \/ /\ user_collection = EmptyDict
          /\ dialog_collection = EmptyDict
       \/ /\ user_collection = StoredUc
          /\ dialog_collection = StoredDc
    /\ dbResult = "ok"
    /\ dbCall = NoCall
    /\ usageLog = <<>>
    /\ InitClient
    /\ InitPresenter
    /\ InitHandlers

Spec == InitBot /\ [][Next]_vars

\* the event loop runs every coroutine that can run, and every awaited call
\* returns or raises
SpecFair == Spec /\ \A i \in ReqIds : WF_vars(Progress(i))

SpecDb == Init /\ [][NextDb]_vars

SpecLedger == Init /\ [][NextLedger]_vars

SpecClient == Init /\ [][NextClient]_vars

SpecPresenter == Init /\ [][NextPresenter]_vars

----------------------------------------------------------------------------
(* Properties of the usage ledger *)

RECURSIVE SumField(_, _)
SumField(calls, k) ==
    IF calls = <<>> THEN 0 ELSE calls[1][k] + SumField(Tail(calls), k)

RECURSIVE CallsFor(_, _, _)
CallsFor(log, u, m) ==
    IF log = <<>> THEN <<>>
    ELSE IF log[1][1] = u /\ log[1][2] = m
         THEN <<log[1]>> \o CallsFor(Tail(log), u, m)
         ELSE CallsFor(Tail(log), u, m)

\* C9: after any sequence of update_n_used_tokens calls the stored input and
\* output counters of every model key of a user are the sums of the counts
\* recorded for that key, the entry exists exactly when something was
\* recorded for it, and so a record leaves the other keys as they were.
C9_UsageAdditive ==
    \A u \in DOMAIN user_collection, m \in Models :
        LET calls == CallsFor(usageLog, u, m)
            d == user_collection[u].n_used_tokens
        IN  IF calls = <<>>
            THEN m \notin DOMAIN d
            ELSE /\ m \in DOMAIN d
                 /\ d[m] = UsageEntry(SumField(calls, 3), SumField(calls, 4))

\* (10,5) then (3,7) recorded for one model key, stored as (13,12)
C9_Witness ==
    \E u \in DOMAIN user_collection, m \in Models :
        /\ CallsFor(usageLog, u, m) = << <<u, m, 10, 5>>, <<u, m, 3, 7>> >>
        /\ m \in DOMAIN user_collection[u].n_used_tokens
        /\ user_collection[u].n_used_tokens[m] = UsageEntry(13, 12)
        /\ Len(usageLog) = 3

----------------------------------------------------------------------------
(* Properties of the dialog store *)

DialogStoreChanged ==
    \/ DOMAIN dialog_collection' # DOMAIN dialog_collection
    \/ \E u \in DOMAIN user_collection :
          user_collection'[u].current_dialog_id
              # user_collection[u].current_dialog_id

\* C10: a step that creates a dialog or moves a current_dialog_id is a
\* start_new_dialog of one registered user: it adds exactly one dialog under
\* an identifier no dialog had, with no messages and the user's chat mode
\* and model of that instant, makes that user's current_dialog_id point to
\* it, and leaves the other dialogs and the other users' pointers alone.
C10_StartNewDialog ==
    [][DialogStoreChanged =>
        \E u \in DOMAIN user_collection, d \in DialogIds :
            /\ d \notin DOMAIN dialog_collection
            /\ DOMAIN dialog_collection' = DOMAIN dialog_collection \cup {d}
            /\ dialog_collection'[d] =
                  [ user_id   |-> u,
                    chat_mode |-> user_collection[u].current_chat_mode,
                    model     |-> user_collection[u].current_model,
                    messages  |-> <<>> ]
            /\ user_collection'[u].current_dialog_id = d
            /\ \A e \in DOMAIN dialog_collection :
                  dialog_collection'[e] = dialog_collection[e]
            /\ \A w \in DOMAIN user_collection \ {u} :
                  user_collection'[w] = user_collection[w]
    ]_vars

\* a second dialog, started after the user changed chat mode and model
C10_Witness ==
    \E u \in DOMAIN user_collection :
        LET d == user_collection[u].current_dialog_id
        IN  /\ d # None
            /\ Cardinality(DOMAIN dialog_collection) >= 2
            /\ dialog_collection[d].user_id = u
            /\ dialog_collection[d].chat_mode = "code_assistant"
            /\ dialog_collection[d].model = "gpt-4o"
            /\ dialog_collection[d].messages = <<>>

----------------------------------------------------------------------------
(* Properties of the completion client *)

Min(a, b) == IF a < b THEN a ELSE b

ClientAccepted == client.pc \in {"streaming", "returned", "finished"}
ClientDone == client.pc \in {"returned", "finished"}

\* C4: the dialog messages kept are always a suffix of the history (only
\* the oldest are dropped). With a remote that rejects a prompt of more than
\* k dialog messages and no error while streaming, the accepted prompt is
\* the system message, the last min(k, N) of the N dialog messages in order
\* and the new message; it was reached with one remote call per dropped
\* message plus one, and the tuple returned or yielded last reports
\* N - min(k, N) removed messages.
C4_TrimOldestFirst ==
    LET c == client
        N == Len(c.history)
        r == Len(c.dialog_messages)
    IN  /\ c.dialog_messages = SubSeq(c.history, N - r + 1, N)
        /\ (ClientAccepted /\ ~c.midStreamError) =>
              /\ r = Min(N, c.k)
              /\ c.calls = (N - r) + 1
              /\ Len(c.messages) = 2 * r + 2
              /\ c.messages[1].role = "system"
              /\ \A j \in 1..r :
                    /\ c.messages[2 * j] =
                          [role |-> "user", content |-> PlainText(Q(N - r + j))]
                    /\ c.messages[2 * j + 1] =
                          [role |-> "assistant", content |-> PlainText(B(N - r + j))]
              /\ c.messages[2 * r + 2].role = "user"
        /\ (ClientDone /\ ~c.midStreamError) =>
              c.out[Len(c.out)].n_first_dialog_messages_removed = N - r

\* three dialog messages, a remote that accepts one: two were trimmed
C4_Witness ==
    /\ client.pc = "finished"
    /\ client.mode = "message_stream"
    /\ ~client.midStreamError
    /\ Len(client.history) = 3
    /\ client.k = 1
    /\ client.dialog_messages = <<HistoryTurn(3)>>
    /\ client.out[Len(client.out)].n_first_dialog_messages_removed = 2

\* C5: with a remote that rejects every prompt (k = -1) and a history of m
\* dialog messages, nothing is returned or yielded, the oldest message is
\* dropped after each rejected call, at most m + 1 remote calls are made,
\* and the run ends raising the context-length failure after exactly m + 1
\* calls with no dialog message left.
C5_ContextExhausted ==
    LET c == client
        m == Len(c.history)
    IN  (c.pc # "idle" /\ c.k = -1) =>
          /\ c.pc \in {"call", "raised"}
          /\ c.out = <<>>
          /\ c.calls <= m + 1
          /\ c.pc = "call" => c.calls = m - Len(c.dialog_messages)
          /\ (c.pc = "raised" /\ c.error # "RemoteError") =>
                /\ c.calls = m + 1
                /\ c.dialog_messages = <<>>
                /\ c.error \in {"ValueError", "context_length_exceeded"}

\* three dialog messages, four rejected calls, then the failure
C5_Witness ==
    /\ client.pc = "raised"
    /\ client.k = -1
    /\ client.mode = "message_stream"
    /\ Len(client.history) = 3
    /\ client.calls = 4
    /\ client.error = "context_length_exceeded"

\* C6: once the remote stream has ended without an error, exactly one
\* finished tuple has been yielded, it is the last tuple, and every tuple
\* before it is a not_finished one.
C6_ExactlyOneFinished ==
    (client.streamEnded /\ ~client.midStreamError) =>
        /\ Len(client.out) >= 1
        /\ client.out[Len(client.out)].status = "finished"
        /\ \A i \in 1..(Len(client.out) - 1) :
              client.out[i].status = "not_finished"

----------------------------------------------------------------------------
(* Properties of the delivery loop *)

\* the length of the last answer delivered (none yet: the empty text)
LastPushedLen ==
    IF presenter.pushes = <<>> THEN 0
    ELSE presenter.pushes[Len(presenter.pushes)].len

\* C7: a not_finished tuple leads to an edit exactly when the length of its
\* (truncated) answer differs by at least 100 from the length of the last
\* answer delivered, whatever tuples were skipped in between; otherwise it
\* is skipped with no delivery. So every not_finished answer delivered
\* differs by at least 100 from the one delivered before it.
C7_Threshold ==
    [][ /\ ( /\ presenter.pc = "next"
             /\ presenter'.tuples # presenter.tuples
             /\ presenter'.status = "not_finished" )
           => /\ presenter'.pc \in {"next", "edit"}
              /\ presenter'.pushes = presenter.pushes
              /\ presenter'.pc = "edit"
                    <=> Abs(presenter'.answer - LastPushedLen) >= Threshold
        /\ ( /\ presenter'.pushes # presenter.pushes
             /\ presenter.status = "not_finished" )
           => Abs(presenter.answer - LastPushedLen) >= Threshold
    ]_vars

\* two tuples skipped (40, 80), the third (140) delivered: 140 is less than
\* 100 from the previous tuple and 140 from the last delivered answer
C7_Witness ==
    /\ presenter.pc = "sleep"
    /\ presenter.skipped = 2
    /\ presenter.tuples = 3
    /\ presenter.answer = 140
    /\ presenter.pushes = <<[len |-> 140, status |-> "not_finished", plain |-> FALSE]>>

RECURSIVE FinishedPushedLen(_)
FinishedPushedLen(pushes) ==
    IF pushes = <<>> THEN 0
    ELSE (IF pushes[1].status = "finished" THEN pushes[1].len ELSE 0)
         + FinishedPushedLen(Tail(pushes))

\* C8: when the loop has delivered a final answer, what it delivered for the
\* finished tuple is the whole final answer, in pieces of at most the limit.
C8_FinalDeliveredWhole ==
    ( /\ presenter.pc = "done"
      /\ \E i \in 1..Len(presenter.pushes) : presenter.pushes[i].status = "finished" )
    => /\ FinishedPushedLen(presenter.pushes) = presenter.raw
       /\ \A i \in 1..Len(presenter.pushes) : presenter.pushes[i].len <= TelegramLimit

----------------------------------------------------------------------------
(* Properties of admission, release and cancellation *)

\* handler i holds the semaphore of its user
InFlight(i) == handlers[i].pc \in {"await_task", "cancel_reply"}

\* the task of request i exists and has not ended
LiveTask(i) == tasks[i].state \notin (TaskEnded \cup {"none"})

InFlightOf(u) == {i \in ReqIds : InFlight(i) /\ handlers[i].user = u}

SlotFree(u) ==
    /\ u \notin DOMAIN user_tasks
    /\ u \in DOMAIN user_semaphores
    /\ user_semaphores[u].value = 1

AtMostOneTask ==
    \A u \in Users :
        /\ Cardinality(InFlightOf(u)) <= 1
        /\ \A i \in ReqIds : LiveTask(i) => InFlight(i)

\* a message of user u arrives as request i: it is rejected with the
\* please-wait reply and gets no task if a request of u is in flight, and
\* is accepted with a new task otherwise
AdmissionExclusive ==
    \A i \in ReqIds :
        (handlers[i].pc = "idle" /\ handlers'[i].kind = "message") =>
            IF InFlightOf(handlers'[i].user) # {}
            THEN /\ handlers'[i].pc = "busy_reply"
                 /\ tasks' = tasks
                 /\ user_tasks' = user_tasks
            ELSE /\ handlers'[i].pc = "await_task"
                 /\ tasks'[i].state = "created"
                 /\ user_tasks'[handlers'[i].user] = i

\* C1: at every instant a user has at most one request in flight and at most
\* one live task; a message that arrives while a request of its user is in
\* flight is rejected with the please-wait reply without creating a task,
\* and a message that arrives when none is in flight is accepted, whichever
\* request came first.
C1_ExclusiveAdmission == []AtMostOneTask /\ [][AdmissionExclusive]_vars

\* a request waits for its task while a later one of the same user is being
\* told to wait
C1_Witness ==
    \E i, j \in ReqIds :
        /\ i < j
        /\ handlers[i].user = handlers[j].user
        /\ handlers[i].pc = "await_task"
        /\ LiveTask(i)
        /\ handlers[j].pc = "busy_reply"
        /\ tasks[j].state = "none"

\* whenever no request of a user is in flight the entry of the user is gone
\* and the semaphore is free
ReleasedWhenIdle ==
    \A u \in DOMAIN user_semaphores : InFlightOf(u) = {} => SlotFree(u)

\* C2: every admitted request reaches the end of its handler, and at that
\* point user_tasks has no entry for its user and the semaphore of the user
\* is free, whether the task returned, raised or was cancelled; as long as
\* no request of the user is in flight the slot stays free, so the next
\* message of the user is admitted.
C2_EventuallyReleased ==
    /\ []ReleasedWhenIdle
    /\ \A i \in ReqIds, u \in Users :
          (handlers[i].pc = "await_task" /\ handlers[i].user = u)
              ~> (handlers[i].pc = "done" /\ SlotFree(u))

\* a message and the /cancel that stopped it have both been handled: the
\* user has recorded usage but no saved dialog message (the task was
\* cancelled), and the slot of the user is free
C2_Witness ==
    \E u \in DOMAIN user_semaphores :
        /\ \A i \in ReqIds : handlers[i].pc = "done"
        /\ SlotFree(u)
        /\ Len(get_dialog_messages(user_collection, dialog_collection, u)) = 0
        /\ DOMAIN user_collection[u].n_used_tokens # {}

\* the stored counters of user u for a model (zero when there is no entry)
Ledger(uc, u, m) ==
    IF m \in DOMAIN uc[u].n_used_tokens THEN uc[u].n_used_tokens[m]
    ELSE UsageEntry(0, 0)

\* the task of request i is cancelled in this step, holding token counts
\* that are not zero and that it has not recorded yet
CancelledWithUsage(i) ==
    /\ LiveTask(i)
    /\ tasks'[i].state = "cancelled"
    /\ tasks[i].tokens # <<0, 0>>
    /\ ~tasks[i].usageRecorded

CancelRecordsUsage ==
    \A i \in ReqIds :
        CancelledWithUsage(i) =>
            LET u == handlers[i].user
                m == tasks[i].model
                before == Ledger(user_collection, u, m)
            IN  Ledger(user_collection', u, m) =
                    UsageEntry(before.n_input_tokens + tasks[i].tokens[1],
                               before.n_output_tokens + tasks[i].tokens[2])

CancelFreesSlot ==
    \A i \in ReqIds :
        (handlers[i].pc = "cancel_reply" /\ handlers'[i].pc = "done") =>
            /\ handlers[i].user \notin DOMAIN user_tasks'
            /\ user_semaphores'[handlers[i].user].value = 1

\* C3: when the task of a request is cancelled while it holds token counts
\* that are not zero (those of the last tuple it received, pushed or not),
\* the counts are added to the ledger entry of its user for the serving
\* model, and when the cancelled request ends the slot of the user is empty.
C3_CancelRecordsUsage == [][CancelRecordsUsage]_vars /\ [][CancelFreesSlot]_vars

----------------------------------------------------------------------------
(* Properties of the prompt built from stored dialog messages *)

\* the content of the first text block of a stored "user" field, the string
\* itself when the field is a str
TurnText(user) ==
    IF user.kind = "str" THEN user.text
    ELSE LET n == CHOOSE n \in 1..Len(user.blocks) :
                     /\ user.blocks[n].type = "text"
                     /\ \A m \in 1..(n - 1) : user.blocks[m].type # "text"
         IN  user.blocks[n].text

\* the number of dialog messages the last prompt was built from: they are
\* the last ones of the history
PromptTurns == (Len(client.messages) - 2) \div 2

\* C11: in every prompt the client builds, the user message emitted for a
\* stored dialog message has as content the first text block of that
\* dialog message, or the string itself when a str was stored; so a
\* dialog message saved by a handler for the text m, with or without an
\* image, comes back as a user message with content m.
C11_RoundTrip ==
    client.messages # <<>> =>
        \A j \in 1..PromptTurns :
            LET turn == client.history[Len(client.history) - PromptTurns + j]
                emitted == client.messages[2 * j]
            IN  /\ emitted = [role |-> "user", content |-> PlainText(TurnText(turn.user))]
                /\ \A m \in {Q(n) : n \in 1..MaxHistory}, img \in BOOLEAN :
                      turn.user = SavedTurn(m, <<>>, img).user
                          => emitted.content = PlainText(m)

\* a prompt built from a str, a saved message with an image and a saved
\* message without one has been answered
C11_Witness ==
    /\ client.pc = "returned"
    /\ PromptTurns = 3
    /\ client.history[1].user.kind = "str"
    /\ client.history[2] = SavedTurn(Q(2), B(2), TRUE)
    /\ client.history[3] = SavedTurn(Q(3), B(3), FALSE)
    /\ client.messages[6].content = PlainText(Q(3))

----------------------------------------------------------------------------
(* Properties of a rejected request *)

\* the dialog messages, the current dialog and the usage of every user
StoredState ==
    [u \in DOMAIN user_collection |->
        [ current_dialog_id |-> user_collection[u].current_dialog_id,
          n_used_tokens |-> user_collection[u].n_used_tokens ]]

\* a step of a request that is rejected (its arrival) or has been rejected
\* (the end of its reply): nothing stored changes, no task is created or
\* touched, the semaphores and the registry stay as they are
RejectedFrame ==
    \A i \in ReqIds :
        ( \/ handlers[i].pc = "idle" /\ handlers'[i].pc = "busy_reply"
          \/ handlers[i].pc = "busy_reply" /\ handlers'[i] # handlers[i] )
        => /\ StoredState' = StoredState
           /\ dialog_collection' = dialog_collection
           /\ tasks' = tasks
           /\ user_tasks' = user_tasks
           /\ handlers[i].pc = "idle" \/ user_semaphores' = user_semaphores
           /\ handlers[i].pc = "idle" =>
                 user_semaphores'[handlers'[i].user].value = 0

\* a rejected request only ends, by returning or with the exception of its
\* reply: it gets no task and never holds the semaphore, and a request
\* that has ended does nothing more
RejectedAborted ==
    \A i \in ReqIds :
        /\ handlers[i].pc = "busy_reply" =>
              /\ handlers'[i].pc \in {"busy_reply", "done", "error_handle"}
              /\ tasks'[i] = TaskNone
        /\ handlers[i].pc = "done" =>
              /\ handlers'[i] = handlers[i]
              /\ tasks'[i] = tasks[i]

NoRequestWaits == \A i \in ReqIds : handlers[i].pc # "wait_lock"

\* C12: a rejected request is aborted: its steps leave the dialog
\* messages, the current dialog and the usage of every user unchanged, it
\* never gets a task (so never calls the remote model) and never holds the
\* semaphore, and no request ever waits for the semaphore.
C12_BusyAborted ==
    /\ []NoRequestWaits
    /\ [][RejectedFrame]_vars
    /\ [][RejectedAborted]_vars

\* a message is being rejected while the task of the earlier request of the
\* user waits for the remote model
C12_Witness ==
    \E i, j \in ReqIds :
        /\ handlers[j].pc = "busy_reply"
        /\ handlers[j].user = handlers[i].user
        /\ tasks[j] = TaskNone
        /\ handlers[i].pc = "await_task"
        /\ tasks[i].state = "gen"
        /\ user_tasks[handlers[i].user] = i

----------------------------------------------------------------------------
(* Properties of cancel_handle *)

\* cancel_handle runs from its arrival to its end in one step; the task it
\* asked to stop in that step is the one whose must_cancel it set
CancelRequested(j) == tasks'[j].must_cancel /\ ~tasks[j].must_cancel

CancelAwaitsTermination ==
    \A i, j \in ReqIds :
        (handlers[i].pc = "idle" /\ handlers'[i].pc = "done" /\ CancelRequested(j))
        => /\ tasks'[j].state \in TaskEnded
           /\ handlers[j].user \notin DOMAIN user_tasks'
           /\ user_semaphores'[handlers[j].user].value = 1

\* C13: when a cancel for a user with a task in flight has completed, the
\* task has terminated and the slot of the user is empty.
C13_CancelAwaitsTermination == [][CancelAwaitsTermination]_vars

----------------------------------------------------------------------------
(* Properties of the usage accounting of a request *)

UsageOf(uc, u) == IF u \in DOMAIN uc THEN uc[u].n_used_tokens ELSE EmptyDict

\* this step changes the recorded usage of user u
UsageChanged(u) == UsageOf(user_collection', u) # UsageOf(user_collection, u)

\* the step is one of the task of request i
TaskStep(i) == LiveTask(i) /\ tasks'[i] # tasks[i]

\* the usage of a user changes only in a step of a live task of that user;
\* that task has not recorded before, it adds the counts it holds, and
\* afterwards it has ended or remembers that it has recorded
RecordedOnce ==
    \A u \in Users :
        UsageChanged(u) =>
            \E i \in ReqIds :
                /\ TaskStep(i)
                /\ handlers[i].user = u
                /\ ~tasks[i].usageRecorded
                /\ tasks'[i].usageRecorded \/ tasks'[i].state \in TaskEnded
                /\ UsageOf(user_collection', u) =
                      MergeUsage(UsageOf(user_collection, u), tasks[i].model,
                                 tasks[i].tokens[1], tasks[i].tokens[2])

\* a task that has recorded its usage on completion and is then cancelled
\* leaves the usage as it is
NoSecondRecord ==
    \A i \in ReqIds :
        (TaskStep(i) /\ tasks[i].usageRecorded) => ~UsageChanged(handlers[i].user)

\* C14: the usage of an admitted request is recorded at most once: by the
\* completion path or by the cancellation path, never by both, at whatever
\* await of the task the cancellation arrives.
C14_RecordedAtMostOnce == [][RecordedOnce]_vars /\ [][NoSecondRecord]_vars

\* a task was cancelled while it awaited the note about removed dialog
\* messages, after it had saved its dialog message and recorded (5, 2): the
\* usage of its user is still (5, 2)
C14_Witness ==
    \E i \in ReqIds :
        /\ tasks[i].state = "cancelled"
        /\ handlers[i].pc = "await_task"
        /\ Len(get_dialog_messages(user_collection, dialog_collection,
                                   handlers[i].user)) = 2
        /\ UsageOf(user_collection, handlers[i].user) =
              MergeUsage(EmptyDict, "gpt-3.5-turbo", PromptTokens, 2)

----------------------------------------------------------------------------
(* Properties of a stream that fails while it is read *)

HasFinished(out) == \E n \in 1..Len(out) : out[n].status = "finished"

\* C15: once a stream has been opened, an error raised while it is read (a
\* context-length error included) ends the generator with that error: the
\* call is not repeated and no finished tuple is yielded.
C15_MidStreamFatal ==
    client.midStreamError =>
        /\ client.pc = "raised"
        /\ ~HasFinished(client.out)

----------------------------------------------------------------------------
(* Properties of the pushes of a task *)

\* a step of the task of request i that ends an awaited push (the edit or
\* the edit without parse_mode) of a tuple with the given status, the task
\* not being cancelled
PushEnds(i, status) ==
    /\ tasks[i].state \in {"edit", "fallback"}
    /\ tasks[i].status = status
    /\ ~tasks[i].must_cancel
    /\ ~tasks'[i].must_cancel
    /\ tasks'[i] # tasks[i]

\* after the push of a not_finished tuple the task goes on with the loop
PartialPushSwallowed ==
    \A i \in ReqIds :
        PushEnds(i, "not_finished") => tasks'[i].state \in {"fallback", "sleep", "gen"}

\* C16: whatever the push of a partial answer answers, an error included,
\* the task goes on: it pushes again without formatting, sleeps, or takes
\* the next tuple, and so reaches the save of its dialog message.
C16_PartialPushErrorSwallowed == [][PartialPushSwallowed]_vars

\* this step of the task of request i saves its dialog message and records
\* its usage
SavesAndRecords(i) ==
    /\ dialog_collection' = SavedDc(i)
    /\ user_collection' = RecordedUc(i)
    /\ tasks'[i].state \in {"removed_reply", "returned"}

\* the formatted push of the finished tuple ends: its text was delivered
\* (the task sleeps, then saves), it was unchanged (the task saves at once),
\* or it is pushed again without formatting
FinalPushHandled ==
    \A i \in ReqIds :
        (PushEnds(i, "finished") /\ tasks[i].state = "edit")
        => \/ tasks'[i].state \in {"sleep", "fallback"}
           \/ SavesAndRecords(i)

\* C17: for the push of the final answer an unchanged-content answer of the
\* transport counts as success and any other transport error leads to a
\* second push of the same text without formatting; either way the task
\* goes on to save its dialog message and record its usage.
C17_FinalPushFallback == [][FinalPushHandled]_vars

----------------------------------------------------------------------------
(* Properties of the push of the finished tuple and of the pushed texts *)

\* the loop takes the finished tuple in this step
TakesFinished ==
    /\ presenter.pc = "next"
    /\ presenter'.tuples # presenter.tuples
    /\ presenter'.status = "finished"

\* C18: the finished tuple is never skipped: when the loop takes it, the
\* edit with its (truncated) answer is what the loop awaits next, however
\* little its length differs from the answer pushed before; the transport
\* accepting the edit, that answer is the last one delivered.
C18_FinishedAlwaysPushed ==
    [][ /\ TakesFinished =>
              /\ presenter'.pc = "edit"
              /\ presenter'.skipped = presenter.skipped
              /\ presenter'.answer = Truncate(presenter'.raw)
        /\ ( /\ presenter.status = "finished"
             /\ presenter.pc \in {"edit", "fallback"}
             /\ presenter'.pc = "sleep" )
           => /\ Len(presenter'.pushes) = Len(presenter.pushes) + 1
              /\ presenter'.pushes[Len(presenter'.pushes)].len = presenter.answer
              /\ presenter'.pushes[Len(presenter'.pushes)].status = "finished"
    ]_vars

\* an answer of length 100 was pushed, the finished tuple carries 99
\* characters (one stripped): it was pushed too
C18_Witness ==
    /\ presenter.pc = "done"
    /\ presenter.pushes = << [len |-> 100, status |-> "not_finished", plain |-> FALSE],
                             [len |-> 99, status |-> "finished", plain |-> FALSE] >>

\* C19: the text of every edit of the placeholder, with or without
\* parse_mode, for a not_finished or the finished tuple, delivered or being
\* awaited, has at most 4096 characters.
C19_PushedAtMostLimit ==
    /\ presenter.pc \in {"edit", "fallback"} => presenter.answer <= TelegramLimit
    /\ \A n \in 1..Len(presenter.pushes) : presenter.pushes[n].len <= TelegramLimit

\* a streamed answer of 4500 characters was pushed as 4096, and so was the
\* finished tuple, once without parse_mode
C19_Witness ==
    /\ presenter.raw > TelegramLimit
    /\ Len(presenter.pushes) = 2
    /\ presenter.pushes[1] = [len |-> TelegramLimit, status |-> "not_finished", plain |-> FALSE]
    /\ presenter.pushes[2] = [len |-> TelegramLimit, status |-> "finished", plain |-> TRUE]

\* C20: every not_finished tuple yielded by send_message_stream or
\* send_vision_message_stream carries 0 as its number of removed dialog
\* messages, also on a call that was repeated after the context-length
\* error.
C20_PartialCarriesZero ==
    client.mode \in StreamModes =>
        \A n \in 1..Len(client.out) :
            client.out[n].status = "not_finished" =>
                client.out[n].n_first_dialog_messages_removed = 0

----------------------------------------------------------------------------
(* Properties of the store for users that are not registered *)

\* the call being made is one of the six methods that look the user up, for
\* a user_id that has no user document (dbCall keeps no other call)
UnknownUserCall == dbCall'.op \in DbOps \ {"add_new_user"}

UnknownUserFails ==
    UnknownUserCall =>
        /\ dbResult' = "ValueError"
        /\ UNCHANGED <<user_collection, dialog_collection>>

\* C25: start_new_dialog, get_user_attribute, set_user_attribute,
\* get_dialog_messages, set_dialog_messages and update_n_used_tokens, called
\* for a user_id that was never added, raise ValueError and leave the user
\* and the dialog collection as they were; no dialog is created.
C25_UnknownUserFails == [][UnknownUserFails]_vars

\* start_new_dialog was called for u2, who is not registered, next to a
\* registered u1 with a dialog: it raised, and u1's dialog is the only one
C25_Witness ==
    /\ dbCall = Call("start_new_dialog", "u2")
    /\ dbResult = "ValueError"
    /\ ~check_if_user_exists(user_collection, "u2")
    /\ check_if_user_exists(user_collection, "u1")
    /\ Cardinality(DOMAIN dialog_collection) = 1
    /\ \A d \in DOMAIN dialog_collection : dialog_collection[d].user_id = "u1"

----------------------------------------------------------------------------
(* Properties of the prompt of the vision variant *)

\* the image blocks of one message of a prompt
ImageBlocksOf(msg) ==
    IF msg.content.kind = "list"
    THEN Cardinality({n \in 1..Len(msg.content.blocks) :
                        msg.content.blocks[n].type = "image_url"})
    ELSE 0

\* C27: every prompt built by send_vision_message or
\* send_vision_message_stream carries exactly one image block, in its last
\* message, and none in the messages before it.
C27_OneImageBlock ==
    (client.mode \in VisionModes /\ client.calls > 0) =>
        /\ ImageBlocksOf(client.messages[Len(client.messages)]) = 1
        /\ \A n \in 1..(Len(client.messages) - 1) :
              ImageBlocksOf(client.messages[n]) = 0

----------------------------------------------------------------------------
(* Properties of the current dialog *)

DialogsOf(dc, u) == {d \in DOMAIN dc : dc[d].user_id = u}

\* C21: every registered user has a current dialog: current_dialog_id is
\* not None and names a dialog document of that user, whatever /start,
\* /new, /retry, mode and model selections, dialog timeouts, generations and
\* cancellations have happened.
C21_OneCurrentDialog ==
    \A u \in DOMAIN user_collection :
        /\ CurrentDialogId(user_collection, u) # None
        /\ DialogFound(dialog_collection, u, CurrentDialogId(user_collection, u))

\* a user chose another chat mode, which started a second dialog, and a
\* generation has saved its dialog message there
C21_Witness ==
    \E u \in DOMAIN user_collection :
        /\ Cardinality(DialogsOf(dialog_collection, u)) = 2
        /\ dialog_collection[CurrentDialogId(user_collection, u)].chat_mode = "code_assistant"
        /\ Len(get_dialog_messages(user_collection, dialog_collection, u)) = 1
        /\ \A i \in ReqIds : handlers[i].pc = "done"

----------------------------------------------------------------------------
(* Properties of the handlers that run beside a generation *)

\* what the store holds for a user: the current dialog, the usage and the
\* dialog documents
OwnedState(uc, dc, u) ==
    [ current_dialog_id |-> uc[u].current_dialog_id,
      n_used_tokens |-> uc[u].n_used_tokens,
      dialogs |-> [d \in DialogsOf(dc, u) |-> dc[d]] ]

MutatedOnlyByTask ==
    \A i \in ReqIds :
        (LiveTask(i) /\ OwnedState(user_collection', dialog_collection', handlers[i].user)
                          # OwnedState(user_collection, dialog_collection, handlers[i].user))
        => TaskStep(i)

\* C22: while the task of a request is in flight, the dialog documents,
\* the current_dialog_id and the usage of its user change only in steps of
\* that task.
C22_MutatedOnlyByTask == [][MutatedOnlyByTask]_vars

----------------------------------------------------------------------------
(* Properties of /retry *)

\* request i is handed to retry_handle in this step
RetryArrives(i) == handlers[i].pc = "idle" /\ handlers'[i].kind = "retry"

\* another request of the user of request i has a generation in flight
OtherInFlight(i, u) ==
    \E j \in ReqIds \ {i} : InFlight(j) /\ handlers[j].user = u

DialogsUntouched ==
    \A d \in DOMAIN dialog_collection :
        d \in DOMAIN dialog_collection' /\ dialog_collection'[d] = dialog_collection[d]

\* a /retry that arrives during a generation of its user is answered with
\* the please-wait reply and reads and writes no dialog
RetryRejectedWhenBusy ==
    \A i \in ReqIds :
        (RetryArrives(i) /\ OtherInFlight(i, handlers'[i].user)) =>
            /\ handlers'[i].pc = "busy_reply"
            /\ DialogsUntouched
            /\ tasks' = tasks

\* a /retry that removes a dialog message does so while no generation of
\* its user is in flight and takes the semaphore in the same step, so that
\* every generation that could read or write the dialog is its own
RetryRemovalExclusive ==
    \A i \in ReqIds :
        (RetryArrives(i) /\ ~DialogsUntouched) =>
            /\ ~OtherInFlight(i, handlers'[i].user)
            /\ handlers'[i].pc = "await_task"
            /\ user_semaphores'[handlers'[i].user].value = 0
            /\ user_tasks'[handlers'[i].user] = i

\* C23: /retry goes through the same semaphore test as a message: during a
\* generation of its user it is rejected and touches no dialog, and an
\* accepted /retry removes the last dialog message only while no generation
\* of the user is in flight, taking the semaphore in the same step.
C23_RetryGated ==
    /\ [][RetryRejectedWhenBusy]_vars
    /\ [][RetryRemovalExclusive]_vars

\* a /retry is being rejected while the task of a message of the same user
\* waits for the remote model, and the dialog still holds its message
C23_Witness ==
    \E i, j \in ReqIds :
        /\ handlers[j].kind = "retry"
        /\ handlers[j].pc = "busy_reply"
        /\ handlers[i].kind = "message"
        /\ handlers[i].user = handlers[j].user
        /\ tasks[i].state = "gen"
        /\ Len(get_dialog_messages(user_collection, dialog_collection,
                                   handlers[j].user)) = 1

----------------------------------------------------------------------------
(* Properties of requests of different users *)

\* everything the bot holds for one user: the user document, the dialog
\* documents, the semaphore, the registered task, and the handlers and
\* tasks of the user's requests
UserState(uc, dc, sems, ut, hs, ts, u) ==
    << {uc[v] : v \in DOMAIN uc \cap {u}},
       [d \in DialogsOf(dc, u) |-> dc[d]],
       {sems[v] : v \in DOMAIN sems \cap {u}},
       {ut[v] : v \in DOMAIN ut \cap {u}},
       {<<i, hs[i], ts[i]>> : i \in {j \in ReqIds : hs[j].user = u}} >>

Untouched(u) ==
    UserState(user_collection', dialog_collection', user_semaphores',
              user_tasks', handlers', tasks', u)
    = UserState(user_collection, dialog_collection, user_semaphores,
                user_tasks, handlers, tasks, u)

\* every step works for one user: what the bot holds for every other user
\* stays as it is
OneUserPerStep == \E u \in Users : \A v \in Users \ {u} : Untouched(v)

\* a request is rejected only during a generation of its own user
BusyByOwnRequest ==
    \A i \in ReqIds :
        (handlers[i].pc = "idle" /\ handlers'[i].pc = "busy_reply") =>
            OtherInFlight(i, handlers'[i].user)

\* a task is cancelled only by cancel_handle for the user of its request
CancelledByOwnUser ==
    \A k \in ReqIds :
        CancelRequested(k) =>
            \E i \in ReqIds : HCancelArrive(i, handlers[k].user)

\* C24: requests of different users do not touch each other: each step
\* changes the documents, semaphore, registry entry, handlers and tasks of one
\* user only, a request is rejected only while a request of the same user
\* is in flight, and a task is cancelled only by a /cancel of its own user.
C24_UsersIndependent ==
    /\ [][OneUserPerStep]_vars
    /\ [][BusyByOwnRequest]_vars
    /\ [][CancelledByOwnUser]_vars

\* a generation of each of the two users is in flight at the same time
C24_Witness ==
    /\ handlers[1].user # handlers[2].user
    /\ \A i \in ReqIds :
          /\ handlers[i].pc = "await_task"
          /\ tasks[i].state = "gen"

----------------------------------------------------------------------------
(* Properties of a photo sent under a model without vision *)

\* current_model of the user as message_handle reads it after registration
ModelAtArrival(u) ==
    IF check_if_user_exists(user_collection, u)
    THEN get_user_attribute(user_collection, u, "current_model")
    ELSE FirstAvailableTextModel

\* a message with a photo is admitted in this step while the model of its
\* user is not a vision model
PhotoArrivesUnsupported(i) ==
    /\ handlers[i].pc = "idle"
    /\ handlers'[i].kind = "message"
    /\ handlers'[i].photo
    /\ handlers'[i].pc = "await_task"
    /\ ModelAtArrival(handlers'[i].user) \notin VisionModels

\* the request keeps the model it found, so that the test at the top of
\* _vision_message_handle_fn answers it before any call of the client
UnsupportedStaysUnsupported ==
    \A i \in ReqIds :
        PhotoArrivesUnsupported(i) =>
            /\ get_user_attribute(user_collection', handlers'[i].user,
                                  "current_model") \notin VisionModels
            /\ tasks'[i].model \notin VisionModels

\* C26: a message with a photo, sent while the current model of the user
\* has no vision capability, is not served by a vision model: the model
\* stays what it was and the task answers that the model must be changed,
\* without calling the completion client.
C26_UnsupportedCapability == [][UnsupportedStaysUnsupported]_vars

----------------------------------------------------------------------------
(* Properties of the failure messages *)

\* the failure message request i is sending to the user, if it is sending one
FailureText(i) ==
    IF handlers[i].pc = "error_handle" THEN error_message(handlers[i].error)
    ELSE IF tasks[i].state = "error_reply" THEN GenericFailure
    ELSE <<>>

\* C28: no failure message sent to the user, by the task or by
\* error_handle, contains the text of the exception that was raised.
C28_NoRawError ==
    \A i \in ReqIds :
        \A n \in 1..Len(FailureText(i)) : FailureText(i)[n] # TransportError

----------------------------------------------------------------------------
(* Properties of the dialog a generation writes to *)

\* the task of request i saves its dialog message in this step
SavesTurn(i) ==
    /\ TaskStep(i)
    /\ tasks[i].status = "finished"
    /\ dialog_collection' # dialog_collection

\* the dialog message goes to the dialog whose messages were read for the
\* prompt, and no other dialog changes
SavedWhereRead ==
    \A i \in ReqIds :
        SavesTurn(i) =>
            \A d \in DOMAIN dialog_collection :
                IF d = tasks[i].read_dialog
                THEN dialog_collection'[d].messages =
                        Append(dialog_collection[d].messages, new_dialog_message(i))
                ELSE dialog_collection'[d] = dialog_collection[d]

\* C29: a generation appends its dialog message to the dialog it read for
\* its prompt, also when /start or a chat-mode or model selection of the
\* same user ran while it was in flight.
C29_SavedWhereRead == [][SavedWhereRead]_vars

----------------------------------------------------------------------------
(* Properties of the dialog message a /retry removed *)

\* the /retry of request i, which removed a dialog message, ends in this
\* step: message_handle returns or raises
RetryEnds(i) ==
    /\ handlers[i].kind = "retry"
    /\ handlers[i].message # <<>>
    /\ handlers[i].pc \in {"await_task", "cancel_reply"}
    /\ handlers'[i].pc \in {"done", "error_handle"}

\* a dialog of the user ends with a dialog message whose user text is t
EndsWithText(dc, u, t) ==
    \E d \in DialogsOf(dc, u) :
        /\ Len(dc[d].messages) > 0
        /\ TurnText(dc[d].messages[Len(dc[d].messages)].user) = t

RetryKeepsTurn ==
    \A i \in ReqIds :
        RetryEnds(i) =>
            EndsWithText(dialog_collection', handlers[i].user, handlers[i].message)

\* C30: when a /retry that removed the last dialog message has ended, a
\* dialog of the user ends with a dialog message carrying the removed user
\* text: the regenerated one, or the removed one put back.
C30_RetryKeepsTurn == [][RetryKeepsTurn]_vars

----------------------------------------------------------------------------
(* Properties of the "cancelled" confirmation *)

\* a dialog holds the dialog message the task of request i saved: the
\* answer of a request is its own
TurnSavedFor(i) ==
    \E d \in DOMAIN dialog_collection :
        \E k \in 1..Len(dialog_collection[d].messages) :
            dialog_collection[d].messages[k].bot = Ans(i)

\* message_handle of request i awaits its "cancelled" reply
CancelConfirmed(i) == handlers[i].pc = "cancel_reply"

\* C31: a request whose "cancelled" confirmation is sent has appended no
\* dialog message: no request is both saved as a completed dialog message
\* and reported as cancelled.
C31_CancelledNotSaved ==
    \A i \in ReqIds : CancelConfirmed(i) => ~TurnSavedFor(i)

----------------------------------------------------------------------------
(* Properties of the stored dialog after a trimmed prompt *)

\* the task of request i saves its dialog message after a generation that
\* reported dialog messages dropped from the prompt
SavesAfterTrim(i) ==
    /\ SavesTurn(i)
    /\ tasks[i].n_first_dialog_messages_removed > 0

\* the dialog messages the task read for its prompt, as they are stored
ReadMessages(i) == dialog_collection[tasks[i].read_dialog].messages

\* the current dialog is then what was read, every dialog message of it in
\* place, and the new dialog message after them
TrimKeepsDialog ==
    \A i \in ReqIds :
        SavesAfterTrim(i) =>
            get_dialog_messages(user_collection', dialog_collection',
                                handlers[i].user)
              = Append(ReadMessages(i), new_dialog_message(i))

\* C32: when a generation that reported k > 0 dialog messages dropped from
\* its prompt completes, the current dialog holds the dialog messages stored
\* before the request, all of them and in order, followed by the one new
\* dialog message.
C32_TrimKeepsDialog == [][TrimKeepsDialog]_vars

----------------------------------------------------------------------------
(* Properties of a generation that fails *)

\* the except Exception clause of the task of request i is entered in this
\* step: the generator raised, a push raised, the store raised in the save
Fails(i) ==
    /\ LiveTask(i)
    /\ tasks[i].state # "error_reply"
    /\ tasks'[i].state = "error_reply"

\* this step changes the dialog messages of a stored dialog
TurnsChanged ==
    \E d \in DOMAIN dialog_collection :
        dialog_collection'[d].messages # dialog_collection[d].messages

\* the failing step records nothing and saves nothing, and the request has
\* recorded and saved nothing before it
FailureRecordsNothing ==
    \A i \in ReqIds :
        Fails(i) =>
            /\ ~UsageChanged(handlers[i].user)
            /\ ~TurnsChanged
            /\ ~tasks[i].usageRecorded
            /\ ~TurnSavedFor(i)

\* a step of the task that records or saves is the last one inside the try
\* block, and the except Exception clause is not entered after it
RecordingLeavesTry ==
    \A i \in ReqIds :
        /\ (TaskStep(i) /\ (UsageChanged(handlers[i].user) \/ TurnsChanged))
              => tasks'[i].state \in {"removed_reply", "returned", "cancelled"}
        /\ tasks[i].state \in ({"removed_reply"} \cup TaskEnded)
              => tasks'[i].state # "error_reply"

\* C33: when a generation ends with a failure that is no cancellation (the
\* generator raises in mid-stream, a push raises, the store raises while the
\* dialog message is saved), the request records no usage, also when it
\* holds token counts of partial tuples that are not zero, and appends no
\* dialog message.
C33_FailureRecordsNothing ==
    [][FailureRecordsNothing]_vars /\ [][RecordingLeavesTry]_vars

\* the generator raised after a partial tuple had given the task token
\* counts that are not zero: the task awaits the failure reply, its user has
\* no recorded usage and no dialog holds an answer of the request
C33_Witness ==
    \E i \in ReqIds :
        /\ tasks[i].state = "error_reply"
        /\ tasks[i].nparts > 0
        /\ tasks[i].tokens # <<0, 0>>
        /\ UsageOf(user_collection, handlers[i].user) = EmptyDict
        /\ ~TurnSavedFor(i)

----------------------------------------------------------------------------
(* Properties of the image a vision prompt carries *)

\* the encoded image in the last message of the prompt built last
PromptImage(c) == c.messages[Len(c.messages)].content.blocks[2].url

\* C34: every prompt the vision variant builds for an image, the one built
\* after a context-length error included, carries the encoded bytes of the
\* image buffer, and they are not empty.
C34_SameImageOnRetry ==
    (client.mode \in VisionModes /\ client.image_buffer.present /\ client.calls > 0) =>
        /\ PromptImage(client) = Base64(client.image_buffer.data)
        /\ PromptImage(client) # Base64(<<>>)

----------------------------------------------------------------------------
(* Properties of the dialog timeout *)

\* the task of request i applies the dialog timeout when it starts
AppliesTimeout(i) ==
    /\ use_new_dialog_timeout(i)
    /\ ~ /\ tasks[i].variant = "vision"
         /\ get_user_attribute(user_collection, handlers[i].user, "current_model")
               \notin VisionModels

\* this step gives the user another current dialog
NewDialogStarted(u) ==
    CurrentDialogId(user_collection', u) # CurrentDialogId(user_collection, u)

\* the task that starts after the given time since the last interaction
\* starts a new dialog exactly when the current one holds a dialog message
\* and the time is more than the timeout
TimeoutDecides ==
    \A i \in ReqIds, elapsed \in Elapsed :
        (TaskStart(i, elapsed) /\ AppliesTimeout(i)) =>
            (NewDialogStarted(handlers[i].user)
             <=> /\ Len(get_dialog_messages(user_collection, dialog_collection,
                                            handlers[i].user)) > 0
                 /\ elapsed > new_dialog_timeout)

\* C35: a request that applies the dialog timeout starts a new dialog
\* before its prompt is built exactly when the current dialog is not empty
\* and the time since the previous interaction of the user is more than
\* new_dialog_timeout seconds, whatever the time, one day and more included.
C35_TimeoutDecides == [][TimeoutDecides]_vars

----------------------------------------------------------------------------
(* Properties of the task registry and the semaphore *)

\* the semaphore of user u is held
LockHeld(u) == u \in DOMAIN user_semaphores /\ user_semaphores[u].value = 0

\* C36: wherever the coroutines wait, user_tasks holds an entry for a user
\* exactly when the semaphore of that user is held, and then by a request
\* of that user whose task the entry is: /cancel finds a task exactly when
\* a request of the user holds the semaphore.
C36_EntryIffLocked ==
    \A u \in Users :
        /\ u \in DOMAIN user_tasks <=> LockHeld(u)
        /\ LockHeld(u) => InFlightOf(u) = {user_tasks[u]}

\* the task of a request was cancelled and its handler awaits the
\* "cancelled" reply: the entry is still there and the semaphore still held
C36_Witness ==
    \E i \in ReqIds :
        /\ handlers[i].pc = "cancel_reply"
        /\ handlers[i].user \in DOMAIN user_tasks
        /\ LockHeld(handlers[i].user)

----------------------------------------------------------------------------
(* Properties of the creation of the semaphores *)

\* the semaphore a user has stays the object it is
SemaphoreKept ==
    \A u \in DOMAIN user_semaphores :
        /\ u \in DOMAIN user_semaphores'
        /\ user_semaphores'[u].object = user_semaphores[u].object

\* every semaphore is the first one made for its user
FirstSemaphore ==
    \A u \in DOMAIN user_semaphores : user_semaphores[u].object = 1

\* C37: the semaphore of a user is made once, at the first update of the
\* user: an entry of user_semaphores is never replaced by a new object, also
\* when several first updates of one user are handled at once, so the
\* requests of a user all test and hold the same semaphore.
C37_SemaphoreMadeOnce == [][SemaphoreKept]_vars /\ []FirstSemaphore

\* two updates of a user who was not registered are handled at once: the
\* first request holds the semaphore made for it, the second one found that
\* semaphore locked and awaits its please-wait reply
C37_Witness ==
    /\ handlers[1].user = "u2"
    /\ handlers[2].user = "u2"
    /\ handlers[1].pc = "await_task"
    /\ tasks[1].state = "created"
    /\ handlers[2].pc = "busy_reply"
    /\ user_semaphores["u2"] = [value |-> 0, object |-> 1]

----------------------------------------------------------------------------
(* Properties of the answer stored in the dialog message *)

\* C38: the answer stored in the dialog message built after the loop is the
\* text of the last edit_message_text call the loop made: the answer of the
\* finished tuple cut to its first 4096 characters.
C38_StoredIsLastPush ==
    presenter.saved =>
        /\ presenter.status = "finished"
        /\ presenter.bot = presenter.sent
        /\ presenter.bot = Truncate(presenter.raw)
        /\ ( /\ presenter.pushes # <<>>
             /\ presenter.pushes[Len(presenter.pushes)].status = "finished" )
           => presenter.bot = presenter.pushes[Len(presenter.pushes)].len

\* a streamed answer of more than 4096 characters, pushed once as a partial
\* answer: the push of the finished tuple carried 4096 characters, and 4096
\* characters are stored
C38_Witness ==
    /\ presenter.saved
    /\ presenter.raw > TelegramLimit
    /\ presenter.bot = TelegramLimit
    /\ Len(presenter.pushes) = 2
    /\ presenter.pushes[2] = [len |-> TelegramLimit, status |-> "finished", plain |-> FALSE]

----------------------------------------------------------------------------
(* Properties of the shape of the prompt *)

\* the client builds a prompt in this step, from the dialog messages it
\* holds before the step
Builds == client'.calls = client.calls + 1

\* the text of the last message of a prompt: the string, or the text block
\* of a message with an image
NewInputText(content) ==
    IF content.kind = "str" THEN content.text ELSE content.blocks[1].text

PromptShape ==
    Builds =>
        LET turns == client.dialog_messages
            messages == client'.messages
        IN  /\ Len(messages) = 2 * Len(turns) + 2
            /\ messages[1] = [role |-> "system",
                              content |-> PlainText(PromptStart(client.chat_mode))]
            /\ \A j \in 1..Len(turns) :
                  /\ messages[2 * j] =
                        [role |-> "user",
                         content |-> PlainText(TurnText(turns[j].user))]
                  /\ messages[2 * j + 1] =
                        [role |-> "assistant", content |-> PlainText(turns[j].bot)]
            /\ messages[Len(messages)].role = "user"
            /\ NewInputText(messages[Len(messages)].content) = client.message

\* C39: a prompt built for a new input from n dialog messages has exactly
\* 2n + 2 messages: the system message of the chat mode first, then for
\* each dialog message in stored order its user text followed at once by its
\* answer, and the new input last.
C39_PromptShape == [][PromptShape]_vars

\* a prompt of eight messages was built from three dialog messages (a str,
\* one saved with an image, one saved without) and a new input with an image
C39_Witness ==
    /\ client.calls = 1
    /\ client.mode \in VisionModes
    /\ client.image_buffer.present
    /\ Len(client.history) = 3
    /\ Len(client.messages) = 8
    /\ client.messages[8].content.kind = "list"

====
